---- MODULE Spec2Model ----
(***************************************************************************)
(* Bounded key/value caches of kev1N916/cache_algos: SIEVE (two variants), *)
(* LRU-K, 2Q and O(1)-LFU.  Each engine is a state machine of its own: its *)
(* variables are the fields of the Go structs, its actions are the         *)
(* exported methods, and a Go panic is a step that sets the fault flag of  *)
(* the returned record and keeps the writes made before the panic.         *)
(***************************************************************************)
EXTENDS Integers, FiniteSets, Sequences, TLC

\* Heap cells available for list nodes (the sentinels are extra).
MaxNodes == 3
\* Capacities 1..MaxCap are tried.
MaxCap == 2

\* The keys; 0 is the zero value of the key type T.
Keys == 0..2
ZeroKey == 0
Data == {"d1"}
NoData == "nil"

MapPut(f, k, v) == [x \in (DOMAIN f) \cup {k} |-> IF x = k THEN v ELSE f[x]]
MapDelete(f, k) == [x \in (DOMAIN f) \ {k} |-> f[x]]
Range(f) == {f[x] : x \in DOMAIN f}
EmptyMap == [x \in {} |-> 0]
Min(S) == CHOOSE x \in S : \A y \in S : x <= y

VARIABLES
    \* SIEVE, src/sieve/sieve_go/sieve.go
    Capacity,   \* Sieve.Capacity
    Nodes,      \* Sieve.Nodes: key -> node
    hand,       \* Sieve.hand: a node or NIL
    next,       \* Node.next of every heap cell
    prev,       \* Node.prev
    key,        \* Node.key
    visited,    \* Node.visited
    value,      \* Node.value
    ret,        \* what the last call did and returned
    \* SIEVE, the variant without a key field in Node
    v_Capacity, v_Nodes, v_hand, v_next, v_prev, v_visited, v_value, v_ret,
    \* LRU-K
    K, Cap, CRP, RIP, Buffer, HIST, LAST,
    now,        \* time.Now().Unix()
    lk_ret,
    Mu,         \* LRU_K.Mu: who holds the mutex between two steps
    purge,      \* the goroutine running StartCleanup and the goroutines it started
    \* 2Q
    tq_Capacity, K_In, K_Out, PageBuffer, A1in, Am, A1out,
    tq_next, tq_prev, tq_key,   \* the fields of the nodes of the three queues
    tq_ret,
    tq_log,     \* the keys a test has passed to Insert, in order
    \* O(1)-LFU
    size, bykey,
    f_next, f_prev, f_value, f_items,   \* the fields of the FreqNodes
    lf_ret

sieveVars == <<Capacity, Nodes, hand, next, prev, key, visited, value, ret>>
variantVars == <<v_Capacity, v_Nodes, v_hand, v_next, v_prev, v_visited, v_value, v_ret>>
lrukVars == <<K, Cap, CRP, RIP, Buffer, HIST, LAST, now, lk_ret, Mu, purge>>
twoqVars == <<tq_Capacity, K_In, K_Out, PageBuffer, A1in, Am, A1out, tq_next, tq_prev, tq_key, tq_ret, tq_log>>
lfuVars == <<size, bykey, f_next, f_prev, f_value, f_items, lf_ret>>
vars == <<sieveVars, variantVars, lrukVars, twoqVars, lfuVars>>

\* An engine that is not the one running stays as it was not yet built.
SieveIdle ==
    /\ Capacity = 0 /\ Nodes = EmptyMap /\ hand = 0 /\ next = EmptyMap /\ prev = EmptyMap
    /\ key = EmptyMap /\ visited = EmptyMap /\ value = EmptyMap /\ ret = EmptyMap
VariantIdle ==
    /\ v_Capacity = 0 /\ v_Nodes = EmptyMap /\ v_hand = 0 /\ v_next = EmptyMap
    /\ v_prev = EmptyMap /\ v_visited = EmptyMap /\ v_value = EmptyMap /\ v_ret = EmptyMap
LRUKIdle ==
    /\ K = 0 /\ Cap = 0 /\ CRP = 0 /\ RIP = 0 /\ Buffer = EmptyMap /\ HIST = EmptyMap
    /\ LAST = EmptyMap /\ now = 0 /\ lk_ret = EmptyMap /\ Mu = 0 /\ purge = EmptyMap
TwoQIdle ==
    /\ tq_Capacity = 0 /\ K_In = 0 /\ K_Out = 0 /\ PageBuffer = EmptyMap /\ A1in = EmptyMap
    /\ Am = EmptyMap /\ A1out = EmptyMap /\ tq_next = EmptyMap /\ tq_prev = EmptyMap
    /\ tq_key = EmptyMap /\ tq_ret = EmptyMap /\ tq_log = <<>>
LFUIdle ==
    /\ size = 0 /\ bykey = EmptyMap /\ f_next = EmptyMap /\ f_prev = EmptyMap
    /\ f_value = EmptyMap /\ f_items = EmptyMap /\ lf_ret = EmptyMap

(***************************************************************************)
(* SIEVE, src/sieve/sieve_go/sieve.go                                      *)
(***************************************************************************)
NIL == 0
HEAD == 1
TAIL == 2
Cells == 3..(MaxNodes + 2)
AllNodes == {HEAD, TAIL} \cup Cells

end_identifier(n) == IF n = HEAD THEN 1 ELSE IF n = TAIL THEN -1 ELSE 0

\* The nodes a program can still get at: from the sentinels, the hand and the
\* index, following next and prev.  Every other cell is garbage.
RECURSIVE Closure(_, _, _)
Closure(S, nx, pv) ==
    LET T == (S \cup {nx[n] : n \in S} \cup {pv[n] : n \in S}) \ {NIL}
    IN IF T = S THEN S ELSE Closure(T, nx, pv)

Sieve_live(s) ==
    Closure(({HEAD, TAIL, s.hand} \cup Range(s.Nodes)) \ {NIL}, s.next, s.prev)

\* The nodes linked between the sentinels, head to tail.
RECURSIVE Walk(_, _, _)
Walk(n, nx, fuel) ==
    IF n = NIL \/ n = TAIL \/ n = HEAD \/ fuel = 0 THEN <<>>
    ELSE <<n>> \o Walk(nx[n], nx, fuel - 1)

Linked == Walk(next[HEAD], next, MaxNodes)
LinkedSet == {Linked[i] : i \in DOMAIN Linked}

RECURSIVE SortedSeq(_)
SortedSeq(S) == IF S = {} THEN <<>> ELSE <<Min(S)>> \o SortedSeq(S \ {Min(S)})

Sieve_state ==
    [hand |-> hand, Nodes |-> Nodes, next |-> next, prev |-> prev, key |-> key,
     visited |-> visited, value |-> value, fault |-> FALSE, victim |-> NIL]

\* ret.after tells an Insert that follows a Get hit what its eviction did to
\* the node that Get marked.
NoRet ==
    [op |-> "none", key |-> ZeroKey, ok |-> FALSE, fault |-> FALSE, victim |-> NIL,
     after |-> "none"]

SieveInit ==
    /\ Capacity \in 1..MaxCap
    /\ Nodes = EmptyMap
    /\ hand = NIL
    /\ next = [n \in AllNodes |-> IF n = HEAD THEN TAIL ELSE NIL]
    /\ prev = [n \in AllNodes |-> IF n = TAIL THEN HEAD ELSE NIL]
    /\ key = [n \in AllNodes |-> ZeroKey]
    /\ visited = [n \in AllNodes |-> FALSE]
    /\ value = [n \in AllNodes |-> NoData]
    /\ ret = NoRet

\* Addresses are not observable, so the heap is kept in one numbering: the
\* linked nodes take the cells 3, 4, ... in list order, then come the other
\* nodes still referred to; cells nothing refers to are collected.
Sieve_order(s) ==
    LET w == Walk(s.next[HEAD], s.next, MaxNodes)
        ws == {w[i] : i \in DOMAIN w}
        rest == SortedSeq(Sieve_live(s) \ (ws \cup {HEAD, TAIL}))
    IN IF Cardinality(ws) = Len(w) THEN w \o rest ELSE SortedSeq(Sieve_live(s) \ {HEAD, TAIL})

Sieve_canon(s) ==
    LET ord == Sieve_order(s)
        new(n) == IF n \in {NIL, HEAD, TAIL} THEN n
                  ELSE 2 + (CHOOSE i \in DOMAIN ord : ord[i] = n)
        old(c) == IF c \in {HEAD, TAIL} THEN c
                  ELSE IF c - 2 \in DOMAIN ord THEN ord[c - 2] ELSE NIL
    IN [hand |-> new(s.hand),
        Nodes |-> [k \in DOMAIN s.Nodes |-> new(s.Nodes[k])],
        next |-> [c \in AllNodes |-> IF old(c) = NIL THEN NIL ELSE new(s.next[old(c)])],
        prev |-> [c \in AllNodes |-> IF old(c) = NIL THEN NIL ELSE new(s.prev[old(c)])],
        key |-> [c \in AllNodes |-> IF old(c) = NIL THEN ZeroKey ELSE s.key[old(c)]],
        visited |-> [c \in AllNodes |-> IF old(c) = NIL THEN FALSE ELSE s.visited[old(c)]],
        value |-> [c \in AllNodes |-> IF old(c) = NIL THEN NoData ELSE s.value[old(c)]]]

\* The state s becomes the next state.
Sieve_commit(s, r) ==
    LET c == Sieve_canon(s)
    IN /\ Nodes' = c.Nodes
       /\ hand' = c.hand
       /\ next' = c.next
       /\ prev' = c.prev
       /\ key' = c.key
       /\ visited' = c.visited
       /\ value' = c.value
       /\ ret' = r
       /\ UNCHANGED <<Capacity, variantVars, lrukVars, twoqVars, lfuVars>>

\* FIFOQueue.deleteNode
deleteNode(s, node) ==
    IF end_identifier(node) = -1 \/ end_identifier(node) = 1 THEN s
    ELSE IF s.next[node] = NIL \/ s.prev[node] = NIL THEN s
    ELSE LET p == s.prev[node]
             n == s.next[node]
         IN [s EXCEPT !.next = [@ EXCEPT ![p] = n],
                      !.prev = [@ EXCEPT ![n] = p]]

\* FIFOQueue.insertNode with NewNode: curr is the fresh cell.
insertNode(s, curr, data, p, n) ==
    [s EXCEPT !.value = [@ EXCEPT ![curr] = data],
              !.visited = [@ EXCEPT ![curr] = FALSE],
              !.key = [@ EXCEPT ![curr] = ZeroKey],
              !.next = [@ EXCEPT ![curr] = n, ![p] = curr],
              !.prev = [@ EXCEPT ![n] = curr, ![curr] = p]]

\* A sweep that takes the first candidate whatever its visited bit (FIFO).
Sieve_sweep_fifo(h, vis, pv, fuel) ==
    IF h = NIL THEN [outcome |-> "nil", hand |-> NIL, visited |-> vis]
    ELSE [outcome |-> "found", hand |-> h, visited |-> vis]

\* A sweep that does not wrap from HEAD to TAIL.prev.
RECURSIVE Sieve_sweep_nowrap(_, _, _, _)
Sieve_sweep_nowrap(h, vis, pv, fuel) ==
    IF h = NIL THEN [outcome |-> "nil", hand |-> NIL, visited |-> vis]
    ELSE IF ~vis[h] THEN [outcome |-> "found", hand |-> h, visited |-> vis]
    ELSE IF fuel = 0 THEN [outcome |-> "diverged", hand |-> h, visited |-> vis]
    ELSE Sieve_sweep_nowrap(pv[h], [vis EXCEPT ![h] = FALSE], pv, fuel - 1)

\* A sweep that passes visited candidates without clearing their bits.
RECURSIVE Sieve_sweep_noclear(_, _, _, _)
Sieve_sweep_noclear(h, vis, pv, fuel) ==
    IF h = NIL THEN [outcome |-> "nil", hand |-> NIL, visited |-> vis]
    ELSE IF ~vis[h] THEN [outcome |-> "found", hand |-> h, visited |-> vis]
    ELSE IF fuel = 0 THEN [outcome |-> "diverged", hand |-> h, visited |-> vis]
    ELSE LET p == pv[h]
         IN IF p = NIL THEN [outcome |-> "nil", hand |-> NIL, visited |-> vis]
            ELSE IF end_identifier(p) = 1
                 THEN Sieve_sweep_noclear(pv[TAIL], vis, pv, fuel - 1)
                 ELSE Sieve_sweep_noclear(p, vis, pv, fuel - 1)

\* The loop of Insert: while the candidate is visited, clear it and step to
\* prev, wrapping from HEAD to TAIL.prev.  Every turn clears one bit, so
\* fuel = number of heap nodes is never used up unless the loop diverges.
RECURSIVE Sieve_sweep(_, _, _, _)
Sieve_sweep(h, vis, pv, fuel) ==
    IF h = NIL THEN [outcome |-> "nil", hand |-> NIL, visited |-> vis]
    ELSE IF ~vis[h] THEN [outcome |-> "found", hand |-> h, visited |-> vis]
    ELSE IF fuel = 0 THEN [outcome |-> "diverged", hand |-> h, visited |-> vis]
    ELSE LET vis2 == [vis EXCEPT ![h] = FALSE]
             p == pv[h]
         IN IF p = NIL THEN [outcome |-> "nil", hand |-> NIL, visited |-> vis2]
            ELSE IF end_identifier(p) = 1
                 THEN Sieve_sweep(pv[TAIL], vis2, pv, fuel - 1)
                 ELSE Sieve_sweep(p, vis2, pv, fuel - 1)

\* A start that sends a hand at HEAD to TAIL only when it is nil.
Sieve_startHand_keep(s) ==
    IF s.hand = NIL THEN TAIL ELSE s.hand

\* Where the sweep starts: the stored hand, or TAIL when it is nil or HEAD.
Sieve_startHand(s) ==
    IF s.hand = NIL \/ end_identifier(s.hand) = 1 THEN TAIL ELSE s.hand

\* An eviction block that leaves the hand at the victim itself.
Sieve_evict_handAtVictim(s) ==
    LET h1 == s.prev[Sieve_startHand(s)]
        sw == Sieve_sweep(h1, s.visited, s.prev, Cardinality(AllNodes))
        swept == [s EXCEPT !.visited = sw.visited]
    IN IF sw.outcome # "found" THEN [swept EXCEPT !.fault = TRUE]
       ELSE LET del == deleteNode([swept EXCEPT !.hand = sw.hand], sw.hand)
            IN [del EXCEPT !.Nodes = MapDelete(@, s.key[sw.hand]),
                           !.victim = sw.hand]

\* The eviction block of Insert.
Sieve_evict(s) ==
    LET h1 == s.prev[Sieve_startHand(s)]
        sw == Sieve_sweep(h1, s.visited, s.prev, Cardinality(AllNodes))
        swept == [s EXCEPT !.visited = sw.visited]
    IN IF sw.outcome # "found" THEN [swept EXCEPT !.fault = TRUE]
       ELSE LET h2 == s.prev[sw.hand]
            IN IF h2 = NIL THEN [swept EXCEPT !.hand = NIL, !.fault = TRUE]
               ELSE LET nodeToBeDeleted == s.next[h2]
                    IN IF nodeToBeDeleted = NIL
                       THEN [swept EXCEPT !.hand = h2, !.fault = TRUE]
                       ELSE LET del == deleteNode([swept EXCEPT !.hand = h2], nodeToBeDeleted)
                            IN [del EXCEPT !.Nodes = MapDelete(@, s.key[nodeToBeDeleted]),
                                           !.victim = nodeToBeDeleted]

\* The guard of the eviction block.
Sieve_full == Cardinality(DOMAIN Nodes) = Capacity

\* What the eviction of an Insert did to the node the Get right before it hit.
Sieve_after(ev) ==
    IF ~(ret.op = "Get" /\ ret.ok) THEN "none"
    ELSE IF ev.victim = NIL THEN "no eviction"
    ELSE IF ev.victim = Nodes[ret.key] THEN "evicted"
    ELSE IF ev.visited[Nodes[ret.key]] THEN "kept"
    ELSE "cleared"

\* Sieve.Insert
Sieve_Insert(k, data) ==
    LET ev == IF Sieve_full THEN Sieve_evict(Sieve_state) ELSE Sieve_state
        r == [op |-> "Insert", key |-> k, ok |-> FALSE, fault |-> FALSE, victim |-> ev.victim,
              after |-> Sieve_after(ev)]
    IN IF ev.fault \/ ev.next[HEAD] = NIL
       THEN Sieve_commit(ev, [r EXCEPT !.fault = TRUE])
       ELSE LET free == Cells \ Sieve_live(ev)
            IN /\ free # {}
               /\ LET currNode == Min(free)
                      ins == insertNode(ev, currNode, data, HEAD, ev.next[HEAD])
                      fin == [ins EXCEPT !.key = [@ EXCEPT ![currNode] = k],
                                         !.Nodes = MapPut(@, k, currNode),
                                         !.visited = [@ EXCEPT ![currNode] = FALSE]]
                  IN Sieve_commit(fin, [r EXCEPT !.ok = TRUE])

\* A Get that also moves the hand to the node it hits.
Sieve_Get_rehand(k) ==
    /\ visited' = IF k \in DOMAIN Nodes THEN [visited EXCEPT ![Nodes[k]] = TRUE] ELSE visited
    /\ hand' = IF k \in DOMAIN Nodes THEN Nodes[k] ELSE hand
    /\ ret' = [op |-> "Get", key |-> k, ok |-> k \in DOMAIN Nodes, fault |-> FALSE,
               victim |-> NIL, after |-> "none"]
    /\ UNCHANGED <<Capacity, Nodes, next, prev, key, value>>
    /\ UNCHANGED <<variantVars, lrukVars, twoqVars, lfuVars>>

\* Sieve.Get
Sieve_Get(k) ==
    /\ visited' = IF k \in DOMAIN Nodes THEN [visited EXCEPT ![Nodes[k]] = TRUE] ELSE visited
    /\ ret' = [op |-> "Get", key |-> k, ok |-> k \in DOMAIN Nodes, fault |-> FALSE,
               victim |-> NIL, after |-> "none"]
    /\ UNCHANGED <<Capacity, Nodes, hand, next, prev, key, value>>
    /\ UNCHANGED <<variantVars, lrukVars, twoqVars, lfuVars>>

\* Sieve.IsEmpty
Sieve_IsEmpty ==
    /\ ret' = [op |-> "IsEmpty", key |-> ZeroKey, ok |-> Cardinality(DOMAIN Nodes) = 0,
               fault |-> FALSE, victim |-> NIL, after |-> "none"]
    /\ UNCHANGED <<Capacity, Nodes, hand, next, prev, key, visited, value>>
    /\ UNCHANGED <<variantVars, lrukVars, twoqVars, lfuVars>>

SieveNext ==
    \/ \E k \in Keys, d \in Data : Sieve_Insert(k, d)
    \/ \E k \in Keys : Sieve_Get(k)
    \/ Sieve_IsEmpty

InitSieve == SieveInit /\ VariantIdle /\ LRUKIdle /\ TwoQIdle /\ LFUIdle

SpecSieve == InitSieve /\ [][SieveNext]_vars

(***************************************************************************)
(* Properties of SIEVE                                                     *)
(***************************************************************************)

\* C1: whenever an operation has returned, the index holds at most Capacity
\* keys, for every sequence of Insert and Get with repeating keys.
C1_IndexWithinCapacity == Cardinality(DOMAIN Nodes) <= Capacity

NodesWithKey(k) == {n \in LinkedSet : key[n] = k}

\* C5: a key is indexed iff exactly one linked node carries it, the index
\* maps the key to that node, and every linked node has an index entry.
C5_IndexAgreesWithList ==
    /\ \A k \in Keys : (k \in DOMAIN Nodes) <=> (Cardinality(NodesWithKey(k)) = 1)
    /\ \A k \in DOMAIN Nodes : NodesWithKey(k) = {Nodes[k]}
    /\ \A n \in LinkedSet : key[n] \in DOMAIN Nodes /\ Nodes[key[n]] = n

\* C6: when Insert runs on a full cache that has an unvisited resident, the
\* key it evicts is a resident key whose visited bit was false when the
\* Insert began.
C6_EvictsUnvisitedKey ==
    [][(ret'.op = "Insert" /\ Sieve_full
          /\ \E k \in DOMAIN Nodes : ~visited[Nodes[k]])
       => /\ ret'.victim # NIL
          /\ key[ret'.victim] \in DOMAIN Nodes
          /\ ~visited[Nodes[key[ret'.victim]]]]_vars

\* The same at the level of nodes: the node unlinked was unvisited.
C6_EvictsUnvisitedNode ==
    [][(ret'.op = "Insert" /\ Sieve_full /\ \E n \in LinkedSet : ~visited[n])
       => (ret'.victim # NIL /\ ~visited[ret'.victim])]_vars

EvictionAfterGet ==
    ret.op = "Get" /\ ret.ok /\ ret'.op = "Insert" /\ ret'.victim # NIL

C8_CapacityOneEvictsResident ==
    [][(Capacity = 1 /\ Sieve_full /\ ret'.op = "Insert" /\ ret'.key \notin DOMAIN Nodes)
       => /\ ~ret'.fault
          /\ ret'.victim \in Range(Nodes)
          /\ DOMAIN Nodes' = {ret'.key}
          /\ Linked' = <<Nodes'[ret'.key]>>]_vars

\* C8 witness: capacity 1, insert(k1); get(k1); insert(k2) has run.
C8_Witness ==
    /\ Capacity = 1
    /\ ret.op = "Insert" /\ ret.after = "evicted"
    /\ DOMAIN Nodes = {ret.key}
    /\ Len(Linked) = 1

\* C9: Get(key) returns true exactly when key is indexed; a hit sets that
\* node's visited bit and nothing else changes; a miss changes nothing.
C9_GetFrame ==
    [][ret'.op = "Get"
       => /\ ret'.ok = (ret'.key \in DOMAIN Nodes)
          /\ ~ret'.fault
          /\ UNCHANGED <<Capacity, Nodes, hand, next, prev, key, value>>
          /\ visited' = IF ret'.key \in DOMAIN Nodes
                        THEN [visited EXCEPT ![Nodes[ret'.key]] = TRUE]
                        ELSE visited]_vars

\* C9 witness: a Get hit has marked a node that is not at the head of the
\* list, and the hand is set.
C9_Witness ==
    /\ ret.op = "Get" /\ ret.ok
    /\ visited[Nodes[ret.key]]
    /\ hand # NIL
    /\ next[HEAD] # Nodes[ret.key]

\* The sweep as the specification describes it, over the list Linked (head
\* to tail) from the candidate at position start: the victim is the first
\* unvisited node going toward HEAD and then on from TAIL.prev, or the
\* candidate itself when every node is visited.
Unvisited == {i \in DOMAIN Linked : ~visited[Linked[i]]}
MaxOf(S) == CHOOSE x \in S : \A y \in S : y <= x
VictimFrom(start) ==
    IF Unvisited = {} THEN start
    ELSE IF \E i \in Unvisited : i <= start THEN MaxOf({i \in Unvisited : i <= start})
    ELSE MaxOf(Unvisited)

\* The positions the sweep passes (and clears) before it stops at the victim.
PassedFrom(start) ==
    IF Unvisited = {} THEN DOMAIN Linked
    ELSE IF VictimFrom(start) <= start THEN (VictimFrom(start) + 1)..start
    ELSE (1..start) \cup ((VictimFrom(start) + 1)..Len(Linked))

\* An Insert has evicted as the sweep from position start prescribes: the
\* victim is unlinked, the new node is first, the other nodes keep their
\* order and keys, and exactly the nodes passed have lost their bit.
SweptFrom(start) ==
    LET v == VictimFrom(start)
        was(j) == IF j - 1 < v THEN j - 1 ELSE j
    IN /\ ~ret'.fault
       /\ ret'.victim = Linked[v]
       /\ Len(Linked') = Len(Linked)
       /\ key'[Linked'[1]] = ret'.key
       /\ ~visited'[Linked'[1]]
       /\ \A j \in 2..Len(Linked) :
             /\ key'[Linked'[j]] = key[Linked[was(j)]]
             /\ visited'[Linked'[j]] =
                    (visited[Linked[was(j)]] /\ was(j) \notin PassedFrom(start))

\* C28: when the hand is unset or at HEAD, the eviction of an Insert on a full
\* cache starts at TAIL.prev and moves toward HEAD: the victim is the
\* unvisited node closest to TAIL, the visited nodes passed lose their bit,
\* and when every node is visited the sweep wraps and evicts TAIL.prev.
C28_SweepFromTail ==
    [][(ret'.op = "Insert" /\ Sieve_full /\ hand \in {NIL, HEAD})
       => SweptFrom(Len(Linked))]_vars

\* C28 witness: capacity 2, insert a, insert b, get a, insert c has run: b
\* was evicted, a lost its bit, and the list is c, a.
C28_Witness ==
    /\ Capacity = 2
    /\ ret.op = "Insert" /\ ret.victim # NIL /\ ret.after = "cleared"
    /\ hand = HEAD
    /\ Len(Linked) = 2
    /\ key[Linked[1]] = ret.key
    /\ DOMAIN Nodes = {key[Linked[1]], key[Linked[2]]}
    /\ key[Linked[1]] # key[Linked[2]]

\* The position of the hand in Linked.
HandIndex == CHOOSE i \in DOMAIN Linked : Linked[i] = hand

\* C29: an eviction leaves the hand at the victim's prev, and the next
\* eviction resumes there: when the stored hand is a linked node it is the
\* first candidate examined (cleared when visited, the victim when not), so
\* no node between the previous victim's place and HEAD goes unexamined.
C29_SweepResumesAtHand ==
    [][(ret'.op = "Insert" /\ Sieve_full) =>
          /\ ~ret'.fault
          /\ ret'.victim \in LinkedSet
          /\ hand' = IF prev[ret'.victim] = HEAD THEN HEAD
                     ELSE Linked'[1 + CHOOSE i \in DOMAIN Linked :
                                          Linked[i] = prev[ret'.victim]]
          /\ hand \in LinkedSet => SweptFrom(HandIndex)]_vars

\* C30: the eviction sweep of an Insert on a full cache terminates in every
\* reachable state, whatever the hand and the visited bits, and ends at a
\* linked node that is not a sentinel, without following a nil neighbour.
C30_SweepTerminatesAtLiveNode ==
    [][(ret'.op = "Insert" /\ Sieve_full) =>
          /\ ~ret'.fault
          /\ ret'.victim \in LinkedSet
          /\ ret'.victim \notin {HEAD, TAIL}]_vars

\* C30 witness: at capacity 2 an Insert right after a Get hit has found every
\* node visited, cleared them all, wrapped and evicted the node that Get had
\* marked; the hand is left at a linked node.
C30_Witness ==
    /\ Capacity = 2
    /\ ret.op = "Insert" /\ ret.victim # NIL /\ ~ret.fault
    /\ ret.after = "evicted"
    /\ hand \notin {NIL, HEAD}

\* C31 as stated: the hand, whenever it is set, points at a node linked
\* between HEAD and TAIL, never at an unlinked node and never at a sentinel.
C31_HandAtLinkedNode == hand # NIL => hand \in LinkedSet

\* C31 amended: the hand, whenever it is set, points at HEAD or at a node
\* linked between HEAD and TAIL; it never points at an unlinked node or at
\* TAIL.
C31_HandAtHeadOrLinkedNode == hand # NIL => hand \in LinkedSet \cup {HEAD}

\* C31 witness: an eviction has left the hand at a linked node.
C31_Witness ==
    /\ ret.op = "Insert" /\ ret.victim # NIL /\ ~ret.fault
    /\ hand \in LinkedSet

(***************************************************************************)
(* The FIFOQueue of SIEVE on its own, as its tests drive it                *)
(***************************************************************************)
\* NewFifoQueue: no Sieve is built, the caller keeps the nodes it made.
FifoInit ==
    /\ Capacity = 0
    /\ Nodes = EmptyMap
    /\ hand = NIL
    /\ next = [n \in AllNodes |-> IF n = HEAD THEN TAIL ELSE NIL]
    /\ prev = [n \in AllNodes |-> IF n = TAIL THEN HEAD ELSE NIL]
    /\ key = [n \in AllNodes |-> ZeroKey]
    /\ visited = [n \in AllNodes |-> FALSE]
    /\ value = [n \in AllNodes |-> NoData]
    /\ ret = NoRet

\* The cells NewNode has handed out: the caller holds a pointer to each.
Fifo_made == {n \in Cells : value[n] # NoData}

\* The state s becomes the next state; addresses stay as they are.
Fifo_commit(s, r) ==
    /\ next' = s.next
    /\ prev' = s.prev
    /\ value' = s.value
    /\ visited' = s.visited
    /\ key' = s.key
    /\ ret' = r
    /\ UNCHANGED <<Capacity, Nodes, hand>>
    /\ UNCHANGED <<variantVars, lrukVars, twoqVars, lfuVars>>

\* fq.insertNode(data, p, p.next) for a node p of the list.
Fifo_insertNode(p, data) ==
    /\ p \in {HEAD} \cup LinkedSet
    /\ next[p] # NIL
    /\ Cells \ Fifo_made # {}
    /\ LET curr == Min(Cells \ Fifo_made)
       IN Fifo_commit(insertNode(Sieve_state, curr, data, p, next[p]),
                      [NoRet EXCEPT !.op = "insertNode", !.victim = curr])

\* NewNode(data): a node that is not linked into the list.
Fifo_NewNode(data) ==
    /\ Cells \ Fifo_made # {}
    /\ LET curr == Min(Cells \ Fifo_made)
       IN Fifo_commit([Sieve_state EXCEPT !.value = [@ EXCEPT ![curr] = data]],
                      [NoRet EXCEPT !.op = "NewNode", !.victim = curr])

\* fq.deleteNode(node) for a sentinel or any node the caller holds.
Fifo_deleteNode(node) ==
    /\ node \in {HEAD, TAIL} \cup Fifo_made
    /\ Fifo_commit(deleteNode(Sieve_state, node),
                   [NoRet EXCEPT !.op = "deleteNode", !.victim = node])

FifoNext ==
    \/ \E p \in AllNodes, d \in Data : Fifo_insertNode(p, d)
    \/ \E d \in Data : Fifo_NewNode(d)
    \/ \E n \in AllNodes : Fifo_deleteNode(n)

InitFifo == FifoInit /\ VariantIdle /\ LRUKIdle /\ TwoQIdle /\ LFUIdle

SpecFifo == InitFifo /\ [][FifoNext]_vars

\* C32: deleteNode applied to the HEAD or TAIL sentinel, to a node that was
\* never linked, or to a node that was unlinked earlier leaves the list
\* unchanged, whatever inserts and deletes came in between.
C32_DeleteOfUnlinkedIsNoOp ==
    [][(ret'.op = "deleteNode" /\ ret'.victim \notin LinkedSet)
       => UNCHANGED <<next, prev>>]_vars

(***************************************************************************)
(* SIEVE, the variant whose Node has no key field                          *)
(***************************************************************************)
VData == {"d1", "d2"}

Variant_state ==
    [hand |-> v_hand, Nodes |-> v_Nodes, next |-> v_next, prev |-> v_prev,
     visited |-> v_visited, value |-> v_value, fault |-> FALSE]

\* NewSieve of the variant takes any capacity; NewFifoQueue links the sentinels.
VariantInit ==
    /\ v_Capacity \in 0..MaxCap
    /\ v_Nodes = EmptyMap
    /\ v_hand = NIL
    /\ v_next = [n \in AllNodes |-> IF n = HEAD THEN TAIL ELSE NIL]
    /\ v_prev = [n \in AllNodes |-> IF n = TAIL THEN HEAD ELSE NIL]
    /\ v_visited = [n \in AllNodes |-> FALSE]
    /\ v_value = [n \in AllNodes |-> NoData]
    /\ v_ret = [op |-> "none", key |-> ZeroKey, ok |-> FALSE, fault |-> FALSE]

Variant_live(s) ==
    Closure(({HEAD, TAIL, s.hand} \cup Range(s.Nodes)) \ {NIL}, s.next, s.prev)

\* FIFOQueue.DeleteNode of the variant: no nil checks.
Variant_DeleteNode(s, node) ==
    IF node = NIL THEN [s EXCEPT !.fault = TRUE]
    ELSE IF end_identifier(node) = -1 \/ end_identifier(node) = 1 THEN s
    ELSE LET p == s.prev[node]
             n == s.next[node]
         IN IF p = NIL THEN [s EXCEPT !.fault = TRUE]
            ELSE IF n = NIL THEN [s EXCEPT !.next = [@ EXCEPT ![p] = n], !.fault = TRUE]
            ELSE [s EXCEPT !.next = [@ EXCEPT ![p] = n],
                           !.prev = [@ EXCEPT ![n] = p]]

\* FIFOQueue.InsertNode of the variant with NewNode: curr is the fresh cell.
Variant_InsertNode(s, curr, data, p, n) ==
    IF n = NIL THEN [s EXCEPT !.fault = TRUE]
    ELSE [s EXCEPT !.value = [@ EXCEPT ![curr] = data],
                   !.visited = [@ EXCEPT ![curr] = FALSE],
                   !.next = [@ EXCEPT ![curr] = n, ![p] = curr],
                   !.prev = [@ EXCEPT ![n] = curr, ![curr] = p]]

\* The loop of the variant's Insert: clear visited candidates up to HEAD.
RECURSIVE Variant_sweep(_, _, _, _)
Variant_sweep(h, vis, pv, fuel) ==
    IF h = NIL THEN [outcome |-> "nil", hand |-> NIL, visited |-> vis]
    ELSE IF ~(vis[h] /\ end_identifier(h) # 1)
         THEN [outcome |-> "found", hand |-> h, visited |-> vis]
    ELSE IF fuel = 0 THEN [outcome |-> "diverged", hand |-> h, visited |-> vis]
    ELSE Variant_sweep(pv[h], [vis EXCEPT ![h] = FALSE], pv, fuel - 1)

\* The eviction block of the variant's Insert; sieve.hand is never written.
Variant_evict(s) ==
    LET h0 == IF s.hand = NIL \/ end_identifier(s.hand) = 1 THEN TAIL ELSE s.hand
        sw == Variant_sweep(h0, s.visited, s.prev, Cardinality(AllNodes))
        swept == [s EXCEPT !.visited = sw.visited]
    IN IF sw.outcome # "found" THEN [swept EXCEPT !.fault = TRUE]
       ELSE LET h1 == IF end_identifier(sw.hand) = 1 THEN TAIL ELSE sw.hand
                h2 == s.prev[h1]
            IN IF h2 = NIL THEN [swept EXCEPT !.fault = TRUE]
               ELSE Variant_DeleteNode(swept, s.next[h2])

\* Sieve.Insert of the variant: nothing is ever written to sieve.Nodes.
Variant_Insert(k, data) ==
    LET ev == IF Cardinality(DOMAIN v_Nodes) = v_Capacity
              THEN Variant_evict(Variant_state) ELSE Variant_state
        free == Cells \ Variant_live(ev)
        ins == IF ev.fault THEN ev
               ELSE Variant_InsertNode(ev, Min(free), data, HEAD, ev.next[HEAD])
    IN /\ free # {}
       /\ v_next' = ins.next
       /\ v_prev' = ins.prev
       /\ v_visited' = ins.visited
       /\ v_value' = ins.value
       /\ v_ret' = [op |-> "Insert", key |-> k, ok |-> ~ins.fault, fault |-> ins.fault]
       /\ UNCHANGED <<v_Capacity, v_Nodes, v_hand>>
       /\ UNCHANGED <<sieveVars, lrukVars, twoqVars, lfuVars>>

\* Sieve.Get of the variant
Variant_Get(k) ==
    /\ v_visited' = IF k \in DOMAIN v_Nodes
                    THEN [v_visited EXCEPT ![v_Nodes[k]] = TRUE] ELSE v_visited
    /\ v_ret' = [op |-> "Get", key |-> k, ok |-> k \in DOMAIN v_Nodes, fault |-> FALSE]
    /\ UNCHANGED <<v_Capacity, v_Nodes, v_hand, v_next, v_prev, v_value>>
    /\ UNCHANGED <<sieveVars, lrukVars, twoqVars, lfuVars>>

\* Sieve.IsEmpty of the variant
Variant_IsEmpty ==
    /\ v_ret' = [op |-> "IsEmpty", key |-> ZeroKey, ok |-> Cardinality(DOMAIN v_Nodes) = 0,
                 fault |-> FALSE]
    /\ UNCHANGED <<v_Capacity, v_Nodes, v_hand, v_next, v_prev, v_visited, v_value>>
    /\ UNCHANGED <<sieveVars, lrukVars, twoqVars, lfuVars>>

VariantNext ==
    \/ \E k \in Keys, d \in VData : Variant_Insert(k, d)
    \/ \E k \in Keys : Variant_Get(k)
    \/ Variant_IsEmpty

InitSieveVariant == VariantInit /\ SieveIdle /\ LRUKIdle /\ TwoQIdle /\ LFUIdle

SpecSieveVariant == InitSieveVariant /\ [][VariantNext]_vars

\* C10, for sieve.go: after Insert(k, v) has returned, k is indexed (so Get(k)
\* is true and IsEmpty is false) and its node sits right after HEAD with
\* visited = false.
C10_SieveInsertPostcondition ==
    (ret.op = "Insert" /\ ~ret.fault)
    => /\ ret.key \in DOMAIN Nodes
       /\ Cardinality(DOMAIN Nodes) # 0
       /\ next[HEAD] = Nodes[ret.key]
       /\ ~visited[next[HEAD]]

\* C10, for the variant: after Insert(k, v) has returned, k is indexed (so
\* Get(k) is true and IsEmpty is false) and its node sits right after HEAD
\* with visited = false.
C10_VariantInsertPostcondition ==
    (v_ret.op = "Insert" /\ ~v_ret.fault)
    => /\ v_ret.key \in DOMAIN v_Nodes
       /\ Cardinality(DOMAIN v_Nodes) # 0
       /\ v_next[HEAD] = v_Nodes[v_ret.key]
       /\ ~v_visited[v_next[HEAD]]

(***************************************************************************)
(* LRU-K                                                                   *)
(***************************************************************************)
\* K ranges over 1..MaxK.
MaxK == 2
\* The clock runs from 1 to MaxTime seconds.
MaxTime == 3
\* CRP ranges over 0..MaxCRP seconds.
MaxCRP == 1

Bytes == {"b1", "b2"}
NoBytes == "nil"

\* StartCleanup has not been started: no purge goroutine.
PurgeOff ==
    [pc |-> "off", start |-> {}, seen |-> {}, page |-> ZeroKey, pending |-> [k \in Keys |-> 0]]

\* Mu.Lock() returns: the mutex is free (and the process has not died).
LRUK_Lock == Mu = "free" /\ purge.pc # "dead"

LRUKInit ==
    /\ K \in 1..MaxK
    /\ Cap \in 1..MaxCap
    /\ CRP \in 0..MaxCRP
    /\ RIP = 0
    /\ Buffer = EmptyMap
    /\ HIST = EmptyMap
    /\ LAST = EmptyMap
    /\ now = 1
    /\ lk_ret = [op |-> "none", key |-> ZeroKey, ok |-> FALSE, fault |-> FALSE,
                 data |-> NoBytes, evicting |-> FALSE, victim |-> ZeroKey]
    /\ Mu = "free"
    /\ purge = PurgeOff

LRUK_state ==
    [Buffer |-> Buffer, HIST |-> HIST, LAST |-> LAST, fault |-> FALSE,
     evicting |-> FALSE, victim |-> ZeroKey]

\* History.init: make([]int64, k).  HIST[p][i + 1] here is HIST.get(p, i).
History_init(k) == [i \in 1..k |-> 0]

\* The loop "for i := 1; i < K; i++ { HIST.set(key, i, HIST.get(key, i-1) + d) }":
\* it runs upwards on the slice itself, so turn i reads what turn i-1 wrote.
RECURSIVE History_shift(_, _, _)
History_shift(h, i, d) ==
    IF i >= Len(h) THEN h
    ELSE History_shift([h EXCEPT ![i + 1] = h[i] + d], i + 1, d)

\* The residents FindVictim can take: outside their CRP and with HIST(p, K-1)
\* below the running minimum, which starts at t.
LRUK_eligible(t) ==
    {p \in DOMAIN Buffer : t - LAST[p] > CRP /\ HIST[p][K] < t}

\* LRU_K.FindVictim: the map is walked in any order and only a strictly
\* smaller HIST(p, K-1) replaces the choice, so any eligible resident with the
\* least value can come out; with none eligible the zero key comes out.
FindVictim(t) ==
    IF LRUK_eligible(t) = {} THEN {ZeroKey}
    ELSE {p \in LRUK_eligible(t) : \A q \in LRUK_eligible(t) : HIST[p][K] <= HIST[q][K]}

\* Last.get and History.get panic on a key they do not hold.
FindVictim_panics(t) ==
    \E p \in DOMAIN Buffer :
        \/ p \notin DOMAIN LAST
        \/ (t - LAST[p] > CRP /\ p \notin DOMAIN HIST)

\* A Set of a resident key that takes every reference for an uncorrelated one.
LRUK_SetPresent_nocrp(s, k, data, t) ==
    IF k \notin DOMAIN s.LAST \/ k \notin DOMAIN s.HIST THEN [s EXCEPT !.fault = TRUE]
    ELSE LET correl_period_of_refd_page == s.LAST[k] - s.HIST[k][1]
             shifted == History_shift(s.HIST[k], 1, correl_period_of_refd_page)
         IN [s EXCEPT !.HIST = MapPut(@, k, [shifted EXCEPT ![1] = t]),
                      !.LAST = MapPut(@, k, t),
                      !.Buffer = MapPut(@, k, data)]

\* The branch of Set for a resident key.
LRUK_SetPresent(s, k, data, t) ==
    IF k \notin DOMAIN s.LAST THEN [s EXCEPT !.fault = TRUE]
    ELSE IF t - s.LAST[k] > CRP
    THEN IF k \notin DOMAIN s.HIST THEN [s EXCEPT !.fault = TRUE]
         ELSE LET correl_period_of_refd_page == s.LAST[k] - s.HIST[k][1]
                  shifted == History_shift(s.HIST[k], 1, correl_period_of_refd_page)
              IN [s EXCEPT !.HIST = MapPut(@, k, [shifted EXCEPT ![1] = t]),
                           !.LAST = MapPut(@, k, t),
                           !.Buffer = MapPut(@, k, data)]
    ELSE [s EXCEPT !.LAST = MapPut(@, k, t), !.Buffer = MapPut(@, k, data)]

\* The branch of Set for a new key while the buffer has room.
LRUK_SetFree(s, k, data, t) ==
    [s EXCEPT !.Buffer = MapPut(@, k, data),
              !.LAST = MapPut(@, k, t),
              !.HIST = MapPut(@, k, [History_init(K) EXCEPT ![1] = t])]

\* An eviction that starts the history of a new key from the victim's.
LRUK_SetFull_inherit(s, k, data, t, victim) ==
    LET h == IF k \in DOMAIN s.HIST THEN History_shift(s.HIST[k], 1, 0)
             ELSE IF victim \in DOMAIN s.HIST THEN History_shift(s.HIST[victim], 1, 0)
             ELSE History_init(K)
    IN [s EXCEPT !.Buffer = MapPut(MapDelete(@, victim), k, data),
                 !.LAST = MapPut(MapDelete(@, victim), k, t),
                 !.HIST = MapPut(@, k, [h EXCEPT ![1] = t]),
                 !.evicting = TRUE,
                 !.victim = victim]

\* An eviction that drops the history of the victim with the page.
LRUK_SetFull_dropHist(s, k, data, t, victim) ==
    LET h == IF k \notin DOMAIN s.HIST THEN History_init(K)
             ELSE History_shift(s.HIST[k], 1, 0)
    IN [s EXCEPT !.Buffer = MapPut(MapDelete(@, victim), k, data),
                 !.LAST = MapPut(MapDelete(@, victim), k, t),
                 !.HIST = MapPut(MapDelete(@, victim), k, [h EXCEPT ![1] = t]),
                 !.evicting = TRUE,
                 !.victim = victim]

\* The branch of Set for a new key on a full buffer, with the victim chosen.
LRUK_SetFull(s, k, data, t, victim) ==
    LET h == IF k \notin DOMAIN s.HIST THEN History_init(K)
             ELSE History_shift(s.HIST[k], 1, 0)
    IN [s EXCEPT !.Buffer = MapPut(MapDelete(@, victim), k, data),
                 !.LAST = MapPut(MapDelete(@, victim), k, t),
                 !.HIST = MapPut(@, k, [h EXCEPT ![1] = t]),
                 !.evicting = TRUE,
                 !.victim = victim]

LRUK_commit(s, r) ==
    /\ Buffer' = s.Buffer
    /\ HIST' = s.HIST
    /\ LAST' = s.LAST
    /\ lk_ret' = r
    /\ UNCHANGED <<K, Cap, CRP, RIP, now, Mu, purge>>
    /\ UNCHANGED <<sieveVars, variantVars, twoqVars, lfuVars>>

\* LRU_K.Set, under the mutex, at time now.
LRUK_Set(k, data) ==
    \E victim \in FindVictim(now) :
        LET t == now
            full == ~(Cardinality(DOMAIN Buffer) < Cap)
            s == IF k \in DOMAIN Buffer THEN LRUK_SetPresent(LRUK_state, k, data, t)
                 ELSE IF ~full THEN LRUK_SetFree(LRUK_state, k, data, t)
                 ELSE IF FindVictim_panics(t) THEN [LRUK_state EXCEPT !.fault = TRUE]
                 ELSE LRUK_SetFull(LRUK_state, k, data, t, victim)
        IN /\ LRUK_Lock
           /\ (k \in DOMAIN Buffer \/ ~full) => victim = Min(FindVictim(now))
           /\ LRUK_commit(s, [op |-> "Set", key |-> k, ok |-> ~s.fault, fault |-> s.fault,
                              data |-> data, evicting |-> s.evicting, victim |-> s.victim])

\* A Get that counts as a reference: it stamps LAST of a resident key.
LRUK_Get_touch(k) ==
    /\ LRUK_Lock
    /\ lk_ret' = [op |-> "Get", key |-> k, ok |-> k \in DOMAIN Buffer, fault |-> FALSE,
                  data |-> IF k \in DOMAIN Buffer THEN Buffer[k] ELSE NoBytes,
                  evicting |-> FALSE, victim |-> ZeroKey]
    /\ LAST' = IF k \in DOMAIN Buffer THEN MapPut(LAST, k, now) ELSE LAST
    /\ UNCHANGED <<K, Cap, CRP, RIP, Buffer, HIST, now, Mu, purge>>
    /\ UNCHANGED <<sieveVars, variantVars, twoqVars, lfuVars>>

\* LRU_K.Get
LRUK_Get(k) ==
    /\ LRUK_Lock
    /\ lk_ret' = [op |-> "Get", key |-> k, ok |-> k \in DOMAIN Buffer, fault |-> FALSE,
                  data |-> IF k \in DOMAIN Buffer THEN Buffer[k] ELSE NoBytes,
                  evicting |-> FALSE, victim |-> ZeroKey]
    /\ UNCHANGED <<K, Cap, CRP, RIP, Buffer, HIST, LAST, now, Mu, purge>>
    /\ UNCHANGED <<sieveVars, variantVars, twoqVars, lfuVars>>

\* LRU_K.Cleanup
LRUK_Cleanup(k) ==
    /\ LRUK_Lock
    /\ Buffer' = MapDelete(Buffer, k)
    /\ HIST' = MapDelete(HIST, k)
    /\ LAST' = MapDelete(LAST, k)
    /\ lk_ret' = [op |-> "Cleanup", key |-> k, ok |-> TRUE, fault |-> FALSE,
                  data |-> NoBytes, evicting |-> FALSE, victim |-> ZeroKey]
    /\ UNCHANGED <<K, Cap, CRP, RIP, now, Mu, purge>>
    /\ UNCHANGED <<sieveVars, variantVars, twoqVars, lfuVars>>

\* A second passes.
LRUK_Tick ==
    /\ now < MaxTime
    /\ now' = now + 1
    /\ UNCHANGED <<K, Cap, CRP, RIP, Buffer, HIST, LAST, lk_ret, Mu, purge>>
    /\ UNCHANGED <<sieveVars, variantVars, twoqVars, lfuVars>>

LRUKNext ==
    \/ \E k \in Keys, d \in Bytes : LRUK_Set(k, d)
    \/ \E k \in Keys : LRUK_Get(k)
    \/ \E k \in Keys : LRUK_Cleanup(k)
    \/ LRUK_Tick

InitLRUK == LRUKInit /\ SieveIdle /\ VariantIdle /\ TwoQIdle /\ LFUIdle

SpecLRUK == InitLRUK /\ [][LRUKNext]_vars

\* FindVictim called on its own, as the tests do, with t the current time.
LRUK_FindVictim ==
    \E victim \in FindVictim(now) :
        /\ FindVictim_panics(now) => victim = Min(FindVictim(now))
        /\ lk_ret' = [op |-> "FindVictim", key |-> IF FindVictim_panics(now) THEN ZeroKey ELSE victim,
                      ok |-> ~FindVictim_panics(now), fault |-> FindVictim_panics(now),
                      data |-> NoBytes, evicting |-> FALSE, victim |-> ZeroKey]
        /\ UNCHANGED <<K, Cap, CRP, RIP, Buffer, HIST, LAST, now, Mu, purge>>
        /\ UNCHANGED <<sieveVars, variantVars, twoqVars, lfuVars>>

\* Long histories: K = LongK on a clock that runs to LongTime, for one
\* configuration (capacity 1, CRP of one second) and two keys.
LongK == 3
LongTime == 9
LongKeys == {0, 1}

LRUKLongInit ==
    /\ K = LongK
    /\ Cap = 1
    /\ CRP = 1
    /\ RIP = 0
    /\ Buffer = EmptyMap
    /\ HIST = EmptyMap
    /\ LAST = EmptyMap
    /\ now = 1
    /\ lk_ret = [op |-> "none", key |-> ZeroKey, ok |-> FALSE, fault |-> FALSE,
                 data |-> NoBytes, evicting |-> FALSE, victim |-> ZeroKey]
    /\ Mu = "free"
    /\ purge = PurgeOff

LRUK_LongTick ==
    /\ now < LongTime /\ now' = now + 1
    /\ UNCHANGED <<K, Cap, CRP, RIP, Buffer, HIST, LAST, lk_ret, Mu, purge>>
    /\ UNCHANGED <<sieveVars, variantVars, twoqVars, lfuVars>>

LRUKLongNext ==
    \/ \E k \in LongKeys : LRUK_Set(k, "b1")
    \/ LRUK_FindVictim
    \/ LRUK_LongTick

InitLRUKLong == LRUKLongInit /\ SieveIdle /\ VariantIdle /\ TwoQIdle /\ LFUIdle

SpecLRUKLong == InitLRUKLong /\ [][LRUKLongNext]_vars

(***************************************************************************)
(* LRU-K with the purge goroutine: go lru.StartCleanup() next to callers   *)
(* of Set, Get and Cleanup.  A call of an exported method is one step      *)
(* (Lock, body, Unlock); the loop of StartCleanup is cut at every point    *)
(* where it holds no lock.                                                 *)
(***************************************************************************)
\* RIP ranges over 0..MaxRIP.
MaxRIP == 1
\* At most MaxPending goroutines started by "go lru.Cleanup(page)" wait per key.
MaxPending == 1

PurgeAsleep == [PurgeOff EXCEPT !.pc = "sleep"]
\* The process has ended: an unrecovered panic or a fatal error of the runtime.
PurgeDead == [PurgeOff EXCEPT !.pc = "dead"]

LRUKPurgeInit ==
    /\ K \in 1..MaxK
    /\ Cap \in 1..MaxCap
    /\ CRP = 0
    /\ RIP \in 0..MaxRIP
    /\ Buffer = EmptyMap
    /\ HIST = EmptyMap
    /\ LAST = EmptyMap
    /\ now = 1
    /\ lk_ret = [op |-> "none", key |-> ZeroKey, ok |-> FALSE, fault |-> FALSE,
                 data |-> NoBytes, evicting |-> FALSE, victim |-> ZeroKey]
    /\ Mu = "free"
    /\ purge = PurgeAsleep

\* time.Sleep returns and the range statement starts to iterate over Buffer.
Purge_Wake ==
    /\ purge.pc = "sleep"
    /\ purge' = [purge EXCEPT !.pc = "range", !.start = DOMAIN Buffer, !.seen = {}]
    /\ UNCHANGED <<K, Cap, CRP, RIP, Buffer, HIST, LAST, now, lk_ret, Mu>>
    /\ UNCHANGED <<sieveVars, variantVars, twoqVars, lfuVars>>

\* One round of "for page := range lru.Buffer", taken without the mutex while
\* other goroutines write the map.  The iteration yields a key that is in the
\* map and was not yielded yet, or ends once every key that was there from the
\* start and still is has been yielded (keys added meanwhile may be skipped),
\* or the runtime stops the process with "concurrent map iteration and map
\* write".
Purge_Range ==
    /\ purge.pc = "range"
    /\ \/ \E page \in DOMAIN Buffer \ purge.seen :
              purge' = [purge EXCEPT !.pc = "lock", !.page = page, !.seen = @ \cup {page}]
       \/ /\ (purge.start \cap DOMAIN Buffer) \subseteq purge.seen
          /\ purge' = [PurgeAsleep EXCEPT !.pending = purge.pending]
       \/ purge' = PurgeDead
    /\ UNCHANGED <<K, Cap, CRP, RIP, Buffer, HIST, LAST, now, lk_ret, Mu>>
    /\ UNCHANGED <<sieveVars, variantVars, twoqVars, lfuVars>>

\* lru.Mu.Lock() in the loop body.
Purge_Lock ==
    /\ purge.pc = "lock"
    /\ LRUK_Lock
    /\ Mu' = "purge"
    /\ purge' = [purge EXCEPT !.pc = "get"]
    /\ UNCHANGED <<K, Cap, CRP, RIP, Buffer, HIST, LAST, now, lk_ret>>
    /\ UNCHANGED <<sieveVars, variantVars, twoqVars, lfuVars>>

\* backward_K_Distance := lru.HIST.get(page, lru.K-1); lru.Mu.Unlock(); and
\* "go lru.Cleanup(page)" when it is above RIP.  HIST.get panics when the page
\* has no history any more.
Purge_Inspect ==
    /\ purge.pc = "get"
    /\ Mu = "purge"
    /\ IF purge.page \notin DOMAIN HIST
       THEN /\ purge' = PurgeDead
            /\ UNCHANGED Mu
       ELSE LET backward_K_Distance == HIST[purge.page][K]
            IN /\ backward_K_Distance > RIP => purge.pending[purge.page] < MaxPending
               /\ Mu' = "free"
               /\ purge' = [purge EXCEPT !.pc = "range", !.page = ZeroKey,
                                         !.pending[purge.page] =
                                             IF backward_K_Distance > RIP THEN @ + 1 ELSE @]
    /\ UNCHANGED <<K, Cap, CRP, RIP, Buffer, HIST, LAST, now, lk_ret>>
    /\ UNCHANGED <<sieveVars, variantVars, twoqVars, lfuVars>>

\* A goroutine started by "go lru.Cleanup(page)" runs Cleanup.
Purge_Cleanup(k) ==
    /\ purge.pending[k] > 0
    /\ LRUK_Lock
    /\ Buffer' = MapDelete(Buffer, k) /\ HIST' = MapDelete(HIST, k) /\ LAST' = MapDelete(LAST, k)
    /\ purge' = [purge EXCEPT !.pending[k] = @ - 1]
    /\ UNCHANGED <<K, Cap, CRP, RIP, now, lk_ret, Mu>>
    /\ UNCHANGED <<sieveVars, variantVars, twoqVars, lfuVars>>

LRUKPurgeNext ==
    \/ \E k \in LongKeys : LRUK_Set(k, "b1")
    \/ \E k \in LongKeys : LRUK_Get(k)
    \/ \E k \in LongKeys : LRUK_Cleanup(k)
    \/ LRUK_Tick
    \/ Purge_Wake
    \/ Purge_Range
    \/ Purge_Lock
    \/ Purge_Inspect
    \/ \E k \in Keys : Purge_Cleanup(k)

InitLRUKPurge == LRUKPurgeInit /\ SieveIdle /\ VariantIdle /\ TwoQIdle /\ LFUIdle

SpecLRUKPurge == InitLRUKPurge /\ [][LRUKPurgeNext]_vars

\* C2: whenever an operation has returned, Buffer holds at most Cap keys,
\* for any K, any CRP and any spacing of the calls in time.
C2_BufferWithinCapacity == Cardinality(DOMAIN Buffer) <= Cap

\* A step of SpecLRUK that is a call of Set (the clock stands still during a
\* call, and every call writes lk_ret).
LRUK_SetStep == now' = now /\ lk_ret'.op = "Set"

\* C11: a Set at time t never removes from the buffer a resident key p that is
\* inside its Correlated Reference Period (t - LAST(p) <= CRP), whatever the
\* value of p, the zero key included.
C11_SetKeepsCorrelatedResidents ==
    [][LRUK_SetStep =>
          \A p \in DOMAIN Buffer :
              (p \in DOMAIN LAST /\ now - LAST[p] <= CRP) => p \in DOMAIN Buffer']_vars

\* The resident keys that are outside their Correlated Reference Period now.
LRUK_OutsideCRP == {p \in DOMAIN Buffer : p \in DOMAIN LAST /\ now - LAST[p] > CRP}

\* C12: FindVictim(t) returns, among the resident keys with t - LAST(p) > CRP,
\* one whose HIST(p, K-1) is smallest, and returns the zero key only when no
\* resident key has t - LAST(p) > CRP; for every K >= 1 and every reachable
\* HIST/LAST state.
C12_FindVictimChoosesOldest ==
    [][(now' = now /\ lk_ret'.op = "FindVictim" /\ ~lk_ret'.fault) =>
          IF LRUK_OutsideCRP = {} THEN lk_ret'.key = ZeroKey
          ELSE /\ lk_ret'.key \in LRUK_OutsideCRP
               /\ \A q \in LRUK_OutsideCRP : HIST[lk_ret'.key][K] <= HIST[q][K]]_vars

\* C13: a Set of a resident key k at time t with t - LAST(k) > CRP computes
\* correl = old LAST(k) - old HIST(k,0) and leaves HIST(k,0) = t,
\* HIST(k,i) = old HIST(k,i-1) + correl for every i in 1..K-1 (the previous
\* history shifted right by one position) and LAST(k) = t, for every K >= 1.
C13_UncorrelatedSetShiftsHistory ==
    [][(LRUK_SetStep /\ ~lk_ret'.fault /\ lk_ret'.key \in DOMAIN Buffer
           /\ now - LAST[lk_ret'.key] > CRP) =>
          LET k == lk_ret'.key
              correl == LAST[k] - HIST[k][1]
          IN /\ HIST'[k][1] = now
             /\ \A i \in 2..K : HIST'[k][i] = HIST[k][i - 1] + correl
             /\ LAST'[k] = now]_vars

\* C14: a Set of a resident key k at time t with t - LAST(k) <= CRP leaves
\* every HIST(k,i) as it was, sets LAST(k) = t and the stored bytes to the new
\* value, and changes no entry of another key in Buffer, HIST or LAST.
C14_CorrelatedSetFrame ==
    [][(LRUK_SetStep /\ ~lk_ret'.fault /\ lk_ret'.key \in DOMAIN Buffer
           /\ now - LAST[lk_ret'.key] <= CRP) =>
          LET k == lk_ret'.key
          IN /\ HIST' = HIST
             /\ LAST' = MapPut(LAST, k, now)
             /\ Buffer' = MapPut(Buffer, k, lk_ret'.data)]_vars

\* A correlated Set has replaced the bytes of a key next to another resident:
\* its LAST is the current second and its HIST(k,0) is older.
C14_Witness ==
    /\ lk_ret.op = "Set" /\ lk_ret.key \in DOMAIN Buffer
    /\ LAST[lk_ret.key] = now /\ HIST[lk_ret.key][1] < now
    /\ Buffer[lk_ret.key] = "b2"
    /\ \E q \in DOMAIN Buffer : q # lk_ret.key /\ Buffer[q] = "b1"

\* C15: when Set(k, v) at time t of a key that is not resident finds the
\* buffer full and FindVictim chooses a victim (a resident outside its CRP),
\* the victim leaves Buffer and LAST while its HIST entry stays as it was,
\* exactly one resident is removed, and k becomes resident with value v,
\* LAST(k) = t and HIST(k,0) = t.
C15_EvictionFrame ==
    [][(LRUK_SetStep /\ ~lk_ret'.fault /\ lk_ret'.evicting /\ LRUK_eligible(now) # {}) =>
          LET k == lk_ret'.key
              victim == lk_ret'.victim
          IN /\ victim \in DOMAIN Buffer /\ victim # k
             /\ DOMAIN Buffer' = (DOMAIN Buffer \ {victim}) \cup {k}
             /\ DOMAIN LAST' = (DOMAIN LAST \ {victim}) \cup {k}
             /\ victim \in DOMAIN HIST' /\ HIST'[victim] = HIST[victim]
             /\ Buffer'[k] = lk_ret'.data
             /\ LAST'[k] = now
             /\ HIST'[k][1] = now
             /\ \A q \in DOMAIN Buffer \ {victim} : Buffer'[q] = Buffer[q] /\ LAST'[q] = LAST[q]]_vars

\* An eviction has removed a victim that is not the zero key (so FindVictim
\* chose it) and has kept its history.
C15_Witness ==
    /\ lk_ret.op = "Set" /\ lk_ret.evicting /\ ~lk_ret.fault
    /\ lk_ret.victim # ZeroKey /\ lk_ret.victim # lk_ret.key
    /\ lk_ret.victim \notin DOMAIN Buffer
    /\ lk_ret.victim \notin DOMAIN LAST
    /\ lk_ret.victim \in DOMAIN HIST
    /\ lk_ret.key \in DOMAIN Buffer /\ LAST[lk_ret.key] = now

\* C16: Get(k) returns the stored bytes and true when k is resident, and
\* false otherwise, and never modifies Buffer, HIST or LAST.
C16_GetIsPureRead ==
    [][(now' = now /\ lk_ret'.op = "Get") =>
          /\ lk_ret'.ok = (lk_ret'.key \in DOMAIN Buffer)
          /\ lk_ret'.ok => lk_ret'.data = Buffer[lk_ret'.key]
          /\ ~lk_ret'.fault
          /\ UNCHANGED <<Buffer, HIST, LAST>>]_vars

\* A Get has hit a key a second or more after its last Set, and returned the
\* bytes of its second Set.
C16_Witness ==
    /\ lk_ret.op = "Get" /\ lk_ret.ok /\ lk_ret.data = "b2"
    /\ lk_ret.key \in DOMAIN Buffer /\ LAST[lk_ret.key] < now

\* C17: Cleanup(k) of a resident key removes k from Buffer, HIST and LAST and
\* changes no entry of another key; Cleanup(k) of a key that is not resident
\* is a silent no-op that leaves Buffer, HIST and LAST entirely unchanged,
\* also when k was evicted earlier.
C17_CleanupFrame ==
    [][(now' = now /\ lk_ret'.op = "Cleanup") =>
          LET k == lk_ret'.key
          IN /\ ~lk_ret'.fault
             /\ IF k \in DOMAIN Buffer
                THEN /\ Buffer' = MapDelete(Buffer, k)
                     /\ HIST' = MapDelete(HIST, k)
                     /\ LAST' = MapDelete(LAST, k)
                ELSE UNCHANGED <<Buffer, HIST, LAST>>]_vars

\* C18 (its second half): a sweep of the purge loop removes only keys whose
\* HIST(K-1) is above RIP: whenever a Cleanup started by the sweep removes a
\* resident key, that key has HIST(K-1) > RIP; a resident key with
\* HIST(K-1) <= RIP is not removed by a sweep.
C18_SweepSparesYoungKeys ==
    [][\A k \in Keys :
          (purge'.pc # "dead" /\ purge'.pending[k] < purge.pending[k]
              /\ k \in DOMAIN Buffer /\ k \in DOMAIN HIST)
          => HIST[k][K] > RIP]_vars

\* C19: every read and write of Buffer, HIST and LAST happens while the mutex
\* is held by the goroutine that makes it, the purge loop's iteration over the
\* resident keys included: the step of the loop that fetches the next key of
\* Buffer and the step that reads its history are both taken with Mu held by
\* the loop.
C19_PurgeLoopAccessesUnderMutex ==
    [][(\/ purge.pc = "range" /\ purge'.pc = "lock"
        \/ purge.pc = "get" /\ purge'.pc = "range")
          => Mu = "purge"]_vars

\* C33: for every key that has a HIST vector, after any sequence of Set calls
\* the entries are ordered newest first, HIST(k, i) >= HIST(k, i+1) for
\* 0 <= i < K-1, and HIST(k, 0) is not after the current time.
C33_HistNewestFirst ==
    \A k \in DOMAIN HIST :
        /\ \A i \in 1..(K - 1) : HIST[k][i] >= HIST[k][i + 1]
        /\ HIST[k][1] <= now

\* C34: when a key that is not resident but still has a HIST vector is
\* admitted again by Set on a full buffer, its history is shifted right by one
\* before HIST(k, 0) is overwritten: new HIST(k, i) = old HIST(k, i-1) for
\* every i in 1..K-1 and new HIST(k, 0) = t, for every K >= 2.
C34_ReadmissionShiftsHistory ==
    [][(/\ LRUK_SetStep /\ ~lk_ret'.fault
        /\ K >= 2
        /\ lk_ret'.key \notin DOMAIN Buffer
        /\ lk_ret'.key \in DOMAIN HIST
        /\ Cardinality(DOMAIN Buffer) >= Cap) =>
          LET k == lk_ret'.key
          IN /\ k \in DOMAIN HIST'
             /\ HIST'[k][1] = now
             /\ \A i \in 2..K : HIST'[k][i] = HIST[k][i - 1]]_vars

\* The scenario of C35 just before its second Set: K = 2, capacity 1, CRP = 1,
\* key a was set at t0 and is the only key ever set, the clock is at t0 + 2
\* and the Set now running is of another key.
LRUK_SecondSetAfterTwoSeconds(a) ==
    /\ LRUK_SetStep
    /\ K = 2 /\ Cap = 1 /\ CRP = 1
    /\ DOMAIN Buffer = {a} /\ DOMAIN HIST = {a} /\ DOMAIN LAST = {a}
    /\ HIST[a] = <<LAST[a], 0>>
    /\ now = LAST[a] + 2
    /\ lk_ret'.key # a

\* C35 as stated: set(a) at t0 then set(b) at t0 + 2 evicts a and leaves b the
\* only resident, with HIST(b, 0) the time of the second set and HIST(b, 1)
\* equal to a's initial HIST(a, 0), that is t0.
C35_NewKeyTakesVictimTime ==
    [][\A a \in Keys : LRUK_SecondSetAfterTwoSeconds(a) =>
          LET b == lk_ret'.key
          IN /\ ~lk_ret'.fault
             /\ DOMAIN Buffer' = {b}
             /\ HIST'[b] = <<now, HIST[a][1]>>]_vars

\* C35 amended: set(a) at t0 then set(b) at t0 + 2 evicts a and leaves b the
\* only resident, with a fresh history: HIST(b, 0) is the time of the second
\* set and HIST(b, 1) is 0; the history of a is retained as it was.
C35_NewKeyGetsFreshHistory ==
    [][\A a \in Keys : LRUK_SecondSetAfterTwoSeconds(a) =>
          LET b == lk_ret'.key
          IN /\ ~lk_ret'.fault
             /\ lk_ret'.evicting /\ lk_ret'.victim = a
             /\ DOMAIN Buffer' = {b}
             /\ DOMAIN LAST' = {b}
             /\ HIST'[b] = <<now, 0>>
             /\ HIST'[a] = HIST[a]]_vars

\* C35 witness: the second Set of the scenario has run at t0 + 2 = 3.
C35_Witness ==
    /\ K = 2 /\ Cap = 1 /\ CRP = 1 /\ now = 3
    /\ lk_ret.op = "Set" /\ lk_ret.evicting /\ ~lk_ret.fault
    /\ DOMAIN Buffer = {lk_ret.key}
    /\ HIST[lk_ret.key] = <<3, 0>>
    /\ DOMAIN HIST = {lk_ret.key, lk_ret.victim}
    /\ lk_ret.victim # lk_ret.key
    /\ HIST[lk_ret.victim] = <<1, 0>>

\* C36: a sweep of the purge loop at time t removes a resident key if and
\* only if its backward K-distance at that time, t - HIST(k, K-1), is above
\* RIP: when the loop has read the history of a key, it starts a Cleanup of
\* that key exactly when now - HIST(k, K-1) > RIP.
C36_SweepRemovesByBackwardDistance ==
    [][(purge.pc = "get" /\ purge'.pc = "range") =>
          LET k == purge.page
          IN (purge'.pending[k] > purge.pending[k]) <=> (now - HIST[k][K] > RIP)]_vars

\* C37: under every interleaving of the purge loop with Set, Get and Cleanup
\* calls, the Cleanup goroutines of the loop included, the key the loop is
\* about to inspect still has a HIST entry when the loop holds the mutex: the
\* loop never reaches the panic of History.get.
C37_InspectedKeyHasHistory ==
    (purge.pc = "get" /\ Mu = "purge") => purge.page \in DOMAIN HIST

(***************************************************************************)
(* 2Q                                                                      *)
(***************************************************************************)
\* K_In ranges over 0..MaxKIn and K_Out over 0..MaxKOut.
MaxKIn == 1
MaxKOut == 1
\* Heap cells for the nodes of the three queues (the six sentinels are extra).
MaxQNodes == 2

QData == {"d1", "d2"}
QHeads == {1, 3, 5}
QTails == {2, 4, 6}
QCells == 7..(MaxQNodes + 6)
QNodes == QHeads \cup QTails \cup QCells

tq_end_identifier(n) == IF n \in QHeads THEN 1 ELSE IF n \in QTails THEN -1 ELSE 0

\* NewFIFO / NewLRU with the Nodes map made, as the callers of NewTwoQ set the
\* queues up.
NewQueue(head, tail) == [Nodes |-> EmptyMap, Head |-> head, Tail |-> tail]

\* NewTwoQ followed by the caller's set-up of K_In, K_Out, the page buffer and
\* the three queues.
TwoQInit ==
    /\ tq_Capacity \in 1..MaxCap
    /\ K_In \in 0..MaxKIn
    /\ K_Out \in 0..MaxKOut
    /\ PageBuffer = EmptyMap
    /\ A1in = NewQueue(1, 2)
    /\ Am = NewQueue(3, 4)
    /\ A1out = NewQueue(5, 6)
    /\ tq_next = [n \in QNodes |-> IF n \in QHeads THEN n + 1 ELSE NIL]
    /\ tq_prev = [n \in QNodes |-> IF n \in QTails THEN n - 1 ELSE NIL]
    /\ tq_key = [n \in QNodes |-> ZeroKey]
    /\ tq_ret = [op |-> "none", key |-> ZeroKey, ok |-> FALSE, fault |-> FALSE,
                 data |-> NoData]
    /\ tq_log = <<>>

TwoQ_state ==
    [PageBuffer |-> PageBuffer, A1in |-> A1in, Am |-> Am, A1out |-> A1out,
     next |-> tq_next, prev |-> tq_prev, key |-> tq_key, fault |-> FALSE, evicted |-> FALSE]

TwoQ_live(s) ==
    Closure(QHeads \cup QTails \cup Range(s.A1in.Nodes) \cup Range(s.Am.Nodes)
              \cup Range(s.A1out.Nodes), s.next, s.prev)

\* DeleteNode of the 2Q package: no nil checks.
TQ_DeleteNode(s, node) ==
    IF node = NIL THEN [s EXCEPT !.fault = TRUE]
    ELSE LET n == s.next[node]
             p == s.prev[node]
         IN IF p = NIL THEN [s EXCEPT !.fault = TRUE]
            ELSE IF n = NIL THEN [s EXCEPT !.next = [@ EXCEPT ![p] = n], !.fault = TRUE]
            ELSE [s EXCEPT !.next = [@ EXCEPT ![p] = n], !.prev = [@ EXCEPT ![n] = p]]

\* NewNode of the 2Q package: node is the fresh cell.
TQ_NewNode(s, node, k, p, n) ==
    LET made == [s EXCEPT !.key = [@ EXCEPT ![node] = k],
                          !.prev = [@ EXCEPT ![node] = p],
                          !.next = [@ EXCEPT ![node] = n]]
    IN IF p = NIL THEN [made EXCEPT !.fault = TRUE]
       ELSE IF n = NIL THEN [made EXCEPT !.next = [@ EXCEPT ![p] = node], !.fault = TRUE]
       ELSE [made EXCEPT !.next = [@ EXCEPT ![p] = node], !.prev = [@ EXCEPT ![n] = node]]

\* FIFO.add and LRU.add (the same code) on the queue held in field q.
Queue_add(s, q, k) ==
    LET head == s[q].Head
        made == TQ_NewNode(s, Min(QCells \ TwoQ_live(s)), k, head, s.next[head])
    IN IF tq_end_identifier(head) # 1 THEN [s EXCEPT !.fault = TRUE]
       ELSE IF made.fault THEN made
       ELSE [made EXCEPT ![q].Nodes = MapPut(@, k, Min(QCells \ TwoQ_live(s)))]

\* FIFO.evict and LRU.evict (the same code): the key returned is always the
\* zero key; s.evicted is the second result.
Queue_evict(s, q) ==
    LET tail == s[q].Tail
        p == s.prev[tail]
    IN IF tq_end_identifier(tail) # -1 \/ p = NIL THEN [s EXCEPT !.fault = TRUE]
       ELSE IF tq_end_identifier(p) = 1 THEN [s EXCEPT !.evicted = FALSE]
       ELSE LET del == TQ_DeleteNode(s, p)
            IN IF del.fault THEN del
               ELSE [del EXCEPT ![q].Nodes = MapDelete(@, s.key[p]), !.evicted = TRUE]

\* LRU.access
LRU_access(s, k) ==
    LET node == IF k \in DOMAIN s.Am.Nodes THEN s.Am.Nodes[k] ELSE NIL
        del == TQ_DeleteNode(s, node)
        head == s.Am.Head
    IN IF del.fault THEN del
       ELSE [del EXCEPT !.next = [@ EXCEPT ![node] = del.next[head], ![head] = node]]

\* A reclaimFor that frees nothing and never panics.
reclaimFor_nothing(s) == s

\* TwoQ.reclaimFor
reclaimFor(s) ==
    IF Cardinality(DOMAIN s.PageBuffer) < tq_Capacity THEN s
    ELSE IF Cardinality(DOMAIN s.A1in.Nodes) >= K_In
    THEN LET ev == Queue_evict(s, "A1in")
         IN IF ev.fault \/ ~ev.evicted THEN [ev EXCEPT !.fault = TRUE]
            ELSE LET out == Queue_add([ev EXCEPT !.PageBuffer = MapDelete(@, ZeroKey)],
                                      "A1out", ZeroKey)
                 IN IF out.fault \/ ~(Cardinality(DOMAIN out.A1out.Nodes) >= K_Out) THEN out
                    ELSE LET ev2 == Queue_evict(out, "A1out")
                         IN IF ev2.fault \/ ~ev2.evicted THEN [ev2 EXCEPT !.fault = TRUE]
                            ELSE ev2
    ELSE LET ev == Queue_evict(s, "Am")
         IN IF ev.fault \/ ~ev.evicted THEN [ev EXCEPT !.fault = TRUE]
            ELSE [ev EXCEPT !.PageBuffer = MapDelete(@, ZeroKey)]

TwoQ_commit(s, r) ==
    /\ PageBuffer' = s.PageBuffer
    /\ A1in' = s.A1in
    /\ Am' = s.Am
    /\ A1out' = s.A1out
    /\ tq_next' = s.next
    /\ tq_prev' = s.prev
    /\ tq_key' = s.key
    /\ tq_ret' = r
    /\ UNCHANGED <<tq_Capacity, K_In, K_Out>>
    /\ UNCHANGED <<sieveVars, variantVars, lrukVars, lfuVars>>

\* The part of Insert for a key that has no page: the page is stored and
\* then page.data is read through the nil page, which panics.
TwoQ_InsertMiss(s, k, data) ==
    LET rec == reclaimFor(s)
    IN IF rec.fault THEN rec
       ELSE [rec EXCEPT !.PageBuffer = MapPut(@, k, [data |-> data, queueType |-> "A1_In"]),
                        !.fault = TRUE]

\* The part of Insert for a key whose page is not tagged "A1_In".
TwoQ_InsertHit(s, k, data) ==
    LET acc == IF s.PageBuffer[k].queueType = "A_M" THEN LRU_access(s, k) ELSE s
    IN IF acc.fault \/ k \notin DOMAIN acc.A1out.Nodes THEN acc
       ELSE LET rec == reclaimFor(acc)
                add == IF rec.fault THEN rec ELSE Queue_add(rec, "Am", k)
            IN IF add.fault THEN add
               ELSE [add EXCEPT !.PageBuffer =
                                    MapPut(@, k, [data |-> data, queueType |-> "A_M"])]

\* An Insert that overwrites the value of a page tagged "A1_In".
TwoQ_Insert_overwrite(k, data) ==
    LET present == k \in DOMAIN PageBuffer
        s == IF ~present THEN TwoQ_InsertMiss(TwoQ_state, k, data)
             ELSE IF PageBuffer[k].queueType = "A1_In"
             THEN [TwoQ_state EXCEPT !.PageBuffer =
                       MapPut(@, k, [data |-> data, queueType |-> "A1_In"])]
             ELSE TwoQ_InsertHit(TwoQ_state, k, data)
    IN /\ QCells \ TwoQ_live(TwoQ_state) # {}
       /\ TwoQ_commit(s, [op |-> "Insert", key |-> k, ok |-> present /\ ~s.fault,
                          fault |-> s.fault,
                          data |-> IF present /\ ~s.fault THEN PageBuffer[k].data ELSE NoData])

\* TwoQ.Insert
TwoQ_Insert(k, data) ==
    LET present == k \in DOMAIN PageBuffer
        s == IF ~present THEN TwoQ_InsertMiss(TwoQ_state, k, data)
             ELSE IF PageBuffer[k].queueType = "A1_In" THEN TwoQ_state
             ELSE TwoQ_InsertHit(TwoQ_state, k, data)
    IN /\ QCells \ TwoQ_live(TwoQ_state) # {}
       /\ TwoQ_commit(s, [op |-> "Insert", key |-> k, ok |-> present /\ ~s.fault,
                          fault |-> s.fault,
                          data |-> IF present /\ ~s.fault THEN PageBuffer[k].data ELSE NoData])

TwoQNext == \E k \in Keys, d \in QData : TwoQ_Insert(k, d) /\ UNCHANGED tq_log

InitTwoQ == TwoQInit /\ SieveIdle /\ VariantIdle /\ LRUKIdle /\ LFUIdle

SpecTwoQ == InitTwoQ /\ [][TwoQNext]_vars

\* C3: after any sequence of Insert calls the resident pages (the page
\* buffer, and |A1in| + |Am|) number at most Capacity and A1out holds at most
\* K_Out keys.
C3_TwoQWithinBounds ==
    /\ Cardinality(DOMAIN PageBuffer) <= tq_Capacity
    /\ Cardinality(DOMAIN A1in.Nodes) + Cardinality(DOMAIN Am.Nodes) <= tq_Capacity
    /\ Cardinality(DOMAIN A1out.Nodes) <= K_Out

\* C3 witness: the page buffer is full and an Insert has just returned.
C3_Witness ==
    /\ Cardinality(DOMAIN PageBuffer) = tq_Capacity
    /\ tq_ret.op = "Insert" /\ ~tq_ret.fault

\* C20: Insert(k, v) of a key that is neither resident nor in A1out returns
\* "was not present" without faulting, and afterwards k is resident with the
\* tag A1in and its node is linked at the head (the MRU end) of the A1in list.
C20_ColdMissEntersA1in ==
    [][(tq_ret'.op = "Insert" /\ tq_ret'.key \notin DOMAIN PageBuffer
           /\ tq_ret'.key \notin DOMAIN A1out.Nodes) =>
          LET k == tq_ret'.key
          IN /\ ~tq_ret'.fault
             /\ ~tq_ret'.ok
             /\ k \in DOMAIN PageBuffer'
             /\ PageBuffer'[k].queueType = "A1_In"
             /\ k \in DOMAIN A1in'.Nodes
             /\ tq_next'[A1in'.Head] = A1in'.Nodes[k]]_vars

\* The tests of the 2Q cache: NewTwoQ(3) with K_In = 1, K_Out = 1 and empty
\* queues, then a run of Insert calls on the keys key1..key4; a call that
\* panics is recovered and the run goes on.
MaxLog == 5
TestKeys == 1..4

TwoQTestInit ==
    /\ tq_Capacity = 3
    /\ K_In = 1
    /\ K_Out = 1
    /\ PageBuffer = EmptyMap
    /\ A1in = NewQueue(1, 2)
    /\ Am = NewQueue(3, 4)
    /\ A1out = NewQueue(5, 6)
    /\ tq_next = [n \in QNodes |-> IF n \in QHeads THEN n + 1 ELSE NIL]
    /\ tq_prev = [n \in QNodes |-> IF n \in QTails THEN n - 1 ELSE NIL]
    /\ tq_key = [n \in QNodes |-> ZeroKey]
    /\ tq_ret = [op |-> "none", key |-> ZeroKey, ok |-> FALSE, fault |-> FALSE,
                 data |-> NoData]
    /\ tq_log = <<>>

TwoQ_TestInsert(k, data) ==
    /\ Len(tq_log) < MaxLog
    /\ TwoQ_Insert(k, data)
    /\ tq_log' = Append(tq_log, k)

TwoQTestNext == \E k \in TestKeys, d \in QData : TwoQ_TestInsert(k, d)

InitTwoQTest == TwoQTestInit /\ SieveIdle /\ VariantIdle /\ LRUKIdle /\ LFUIdle

SpecTwoQTest == InitTwoQTest /\ [][TwoQTestNext]_vars

\* C22: with capacity 3, K_In = 1 and K_Out = 1, after insert(k1), insert(k2),
\* insert(k3), insert(k4) the key k1 is not in the page buffer and is in
\* A1out, and a following insert(k1) leaves k1 resident with the tag Am.
C22_FourthInsertMovesFirstToA1out ==
    /\ tq_log = <<1, 2, 3, 4>> =>
          (1 \notin DOMAIN PageBuffer /\ 1 \in DOMAIN A1out.Nodes)
    /\ tq_log = <<1, 2, 3, 4, 1>> =>
          (1 \in DOMAIN PageBuffer /\ PageBuffer[1].queueType = "A_M")

C23_A1inHitChangesNothing ==
    [][(tq_ret'.op = "Insert" /\ tq_ret'.key \in DOMAIN PageBuffer
           /\ PageBuffer[tq_ret'.key].queueType = "A1_In") =>
          /\ tq_ret'.ok
          /\ ~tq_ret'.fault
          /\ tq_ret'.data = PageBuffer[tq_ret'.key].data
          /\ UNCHANGED <<PageBuffer, A1in, Am, A1out, tq_next, tq_prev, tq_key>>]_vars

\* An Insert has hit a key tagged A1in while another key is resident with the
\* other value.
C23_Witness ==
    /\ tq_ret.op = "Insert" /\ tq_ret.ok
    /\ tq_ret.key \in DOMAIN PageBuffer
    /\ PageBuffer[tq_ret.key] = [data |-> "d1", queueType |-> "A1_In"]
    /\ \E j \in DOMAIN PageBuffer : PageBuffer[j].data = "d2"

\* C38: when an Insert of a key without a page finds the page buffer full,
\* reclaim removes exactly one resident page: if |A1in| >= K_In, the key at
\* the tail (LRU end) of A1in leaves A1in and the page buffer and is pushed
\* onto the head (MRU end) of A1out; otherwise the key at the tail of Am
\* leaves Am and the page buffer and A1out is unchanged.
C38_ReclaimRemovesExactlyTheLRUKey ==
    [][(/\ tq_ret'.op = "Insert"
        /\ tq_ret'.key \notin DOMAIN PageBuffer
        /\ Cardinality(DOMAIN PageBuffer) >= tq_Capacity) =>
          LET k == tq_ret'.key
          IN IF Cardinality(DOMAIN A1in.Nodes) >= K_In
             THEN \E e \in DOMAIN A1in.Nodes :
                     /\ tq_prev[A1in.Tail] = A1in.Nodes[e]
                     /\ DOMAIN A1in'.Nodes = DOMAIN A1in.Nodes \ {e}
                     /\ DOMAIN PageBuffer' = (DOMAIN PageBuffer \ {e}) \cup {k}
                     /\ e \in DOMAIN A1out'.Nodes
                     /\ tq_next'[A1out'.Head] = A1out'.Nodes[e]
                     /\ Am' = Am
             ELSE \E e \in DOMAIN Am.Nodes :
                     /\ tq_prev[Am.Tail] = Am.Nodes[e]
                     /\ DOMAIN Am'.Nodes = DOMAIN Am.Nodes \ {e}
                     /\ DOMAIN PageBuffer' = (DOMAIN PageBuffer \ {e}) \cup {k}
                     /\ A1out' = A1out
                     /\ A1in' = A1in]_vars

(***************************************************************************)
(* The LRU list of 2Q on its own, as TestLRUOperations drives it           *)
(***************************************************************************)
\* NewLRU with the Nodes map made; the list lives in Am, no TwoQ is built.
LRUListInit ==
    /\ tq_Capacity = 0
    /\ K_In = 0
    /\ K_Out = 0
    /\ PageBuffer = EmptyMap
    /\ A1in = NewQueue(1, 2)
    /\ Am = NewQueue(3, 4)
    /\ A1out = NewQueue(5, 6)
    /\ tq_next = [n \in QNodes |-> IF n \in QHeads THEN n + 1 ELSE NIL]
    /\ tq_prev = [n \in QNodes |-> IF n \in QTails THEN n - 1 ELSE NIL]
    /\ tq_key = [n \in QNodes |-> ZeroKey]
    /\ tq_ret = [op |-> "none", key |-> ZeroKey, ok |-> FALSE, fault |-> FALSE,
                 data |-> NoData]
    /\ tq_log = <<>>

\* lru.add(k) for a key the list does not hold.
LRUList_add(k) ==
    LET s == Queue_add(TwoQ_state, "Am", k)
    IN /\ k \notin DOMAIN Am.Nodes
       /\ QCells \ TwoQ_live(TwoQ_state) # {}
       /\ TwoQ_commit(s, [op |-> "add", key |-> k, ok |-> ~s.fault, fault |-> s.fault,
                          data |-> NoData])
       /\ UNCHANGED tq_log

\* lru.access(k) for a key the list holds.
LRUList_access(k) ==
    LET s == LRU_access(TwoQ_state, k)
    IN /\ k \in DOMAIN Am.Nodes
       /\ TwoQ_commit(s, [op |-> "access", key |-> k, ok |-> ~s.fault, fault |-> s.fault,
                          data |-> NoData])
       /\ UNCHANGED tq_log

\* lru.evict(): the key handed back is the zero key, ok is the second result.
LRUList_evict ==
    LET s == Queue_evict(TwoQ_state, "Am")
    IN /\ TwoQ_commit(s, [op |-> "evict", key |-> ZeroKey, ok |-> s.evicted /\ ~s.fault,
                          fault |-> s.fault, data |-> NoData])
       /\ UNCHANGED tq_log

LRUListNext ==
    \/ \E k \in Keys : LRUList_add(k)
    \/ \E k \in Keys : LRUList_access(k)
    \/ LRUList_evict

InitLRUList == LRUListInit /\ SieveIdle /\ VariantIdle /\ LRUKIdle /\ LFUIdle

SpecLRUList == InitLRUList /\ [][LRUListNext]_vars

\* The nodes from n on, following nx up to a sentinel.
RECURSIVE TQ_walk(_, _, _)
TQ_walk(n, nx, fuel) ==
    IF n = NIL \/ n \in QHeads \cup QTails \/ fuel = 0 THEN <<>>
    ELSE <<n>> \o TQ_walk(nx[n], nx, fuel - 1)

\* The list of queue q is a well-formed doubly-linked list holding exactly
\* the nodes of q.Nodes: walked forward from Head and backward from Tail it
\* shows the same nodes, and n.next.prev = n and n.prev.next = n throughout.
TQ_wellFormed(q, nx, pv) ==
    LET fw == TQ_walk(nx[q.Head], nx, MaxQNodes + 1)
        bw == TQ_walk(pv[q.Tail], pv, MaxQNodes + 1)
        fs == {fw[i] : i \in DOMAIN fw}
    IN /\ fs = Range(q.Nodes)
       /\ Len(fw) = Cardinality(DOMAIN q.Nodes)
       /\ Len(bw) = Len(fw)
       /\ \A i \in DOMAIN fw : bw[Len(fw) + 1 - i] = fw[i]
       /\ \A n \in fs \cup {q.Head} : nx[n] # NIL /\ pv[nx[n]] = n
       /\ \A n \in fs \cup {q.Tail} : pv[n] # NIL /\ nx[pv[n]] = n

\* C39: LRU.access of a key of Am moves that key's node to the head (MRU
\* end) of Am and leaves Am a well-formed doubly-linked list holding the same
\* keys, so that the LRU.evict that follows removes the least recently used
\* key and hands it back.
C39_AccessKeepsListWellFormed ==
    [][/\ (tq_ret'.op = "access" /\ TQ_wellFormed(Am, tq_next, tq_prev)) =>
             /\ ~tq_ret'.fault
             /\ Am'.Nodes = Am.Nodes
             /\ tq_next'[Am'.Head] = Am'.Nodes[tq_ret'.key]
             /\ TQ_wellFormed(Am', tq_next', tq_prev')
       /\ (tq_ret'.op = "evict" /\ TQ_wellFormed(Am, tq_next, tq_prev)
              /\ DOMAIN Am.Nodes # {}) =>
             /\ tq_ret'.ok
             /\ tq_ret'.key = tq_key[tq_prev[Am.Tail]]
             /\ DOMAIN Am'.Nodes = DOMAIN Am.Nodes \ {tq_key[tq_prev[Am.Tail]]}
             /\ TQ_wellFormed(Am', tq_next', tq_prev')]_vars

(***************************************************************************)
(* O(1)-LFU                                                                *)
(***************************************************************************)
\* Heap cells for FreqNodes (freq_Head is extra).
MaxBuckets == 3
\* Access is tried on items whose frequency is below MaxFreq.
MaxFreq == 3

LData == {"d1"}
FHEAD == 1
FCells == 2..(MaxBuckets + 1)
FNodes == {FHEAD} \cup FCells

\* NewLfuCache, and the size the caller sets.
LFUInit ==
    /\ size \in 1..MaxCap
    /\ bykey = EmptyMap
    /\ f_next = [n \in FNodes |-> NIL]
    /\ f_prev = [n \in FNodes |-> NIL]
    /\ f_value = [n \in FNodes |-> 0]
    /\ f_items = [n \in FNodes |-> {}]
    /\ lf_ret = [op |-> "none", key |-> ZeroKey, ok |-> FALSE, fault |-> FALSE,
                 data |-> NoData, evicted |-> FALSE, victim |-> ZeroKey]

\* bykey[k] and the items map of k's bucket hold the same *LFU_Item, so an
\* items map is kept as the set of its keys.
LFU_state ==
    [bykey |-> bykey, next |-> f_next, prev |-> f_prev, value |-> f_value,
     items |-> f_items, fault |-> FALSE, evicted |-> FALSE, victim |-> ZeroKey]

LFU_live(s) ==
    Closure({FHEAD} \cup {s.bykey[k].parent : k \in DOMAIN s.bykey}, s.next, s.prev)

\* The buckets linked after freq_Head, in order, from bucket n on.
RECURSIVE LFU_walk(_, _, _)
LFU_walk(n, nx, fuel) ==
    IF n = NIL \/ n = FHEAD \/ fuel = 0 THEN <<>>
    ELSE <<n>> \o LFU_walk(nx[n], nx, fuel - 1)

\* Addresses are not observable: the linked buckets take the cells 2, 3, ...
\* in list order, then the other buckets still referred to.
LFU_order(s) ==
    LET w == LFU_walk(s.next[FHEAD], s.next, MaxBuckets)
        ws == {w[i] : i \in DOMAIN w}
        rest == SortedSeq(LFU_live(s) \ (ws \cup {FHEAD}))
    IN IF Cardinality(ws) = Len(w) THEN w \o rest ELSE SortedSeq(LFU_live(s) \ {FHEAD})

LFU_canon(s) ==
    LET ord == LFU_order(s)
        new(n) == IF n \in {NIL, FHEAD} THEN n
                  ELSE 1 + (CHOOSE i \in DOMAIN ord : ord[i] = n)
        old(c) == IF c = FHEAD THEN c
                  ELSE IF c - 1 \in DOMAIN ord THEN ord[c - 1] ELSE NIL
    IN [bykey |-> [k \in DOMAIN s.bykey |->
                       [data |-> s.bykey[k].data, parent |-> new(s.bykey[k].parent)]],
        next |-> [c \in FNodes |-> IF old(c) = NIL THEN NIL ELSE new(s.next[old(c)])],
        prev |-> [c \in FNodes |-> IF old(c) = NIL THEN NIL ELSE new(s.prev[old(c)])],
        value |-> [c \in FNodes |-> IF old(c) = NIL THEN 0 ELSE s.value[old(c)]],
        items |-> [c \in FNodes |-> IF old(c) = NIL THEN {} ELSE s.items[old(c)]]]

LFU_commit(s, r) ==
    LET c == LFU_canon(s)
    IN /\ bykey' = c.bykey
       /\ f_next' = c.next
       /\ f_prev' = c.prev
       /\ f_value' = c.value
       /\ f_items' = c.items
       /\ lf_ret' = r
       /\ UNCHANGED size
       /\ UNCHANGED <<sieveVars, variantVars, lrukVars, twoqVars>>

\* GetNewNode: node is the fresh cell; next.prev is written through next
\* even when next is nil.
GetNewNode(s, node, v, p, n) ==
    LET made == [s EXCEPT !.value = [@ EXCEPT ![node] = v],
                          !.items = [@ EXCEPT ![node] = {}],
                          !.prev = [@ EXCEPT ![node] = p],
                          !.next = [@ EXCEPT ![node] = n]]
    IN IF p = NIL THEN [made EXCEPT !.fault = TRUE]
       ELSE IF n = NIL THEN [made EXCEPT !.next = [@ EXCEPT ![p] = node], !.fault = TRUE]
       ELSE [made EXCEPT !.next = [@ EXCEPT ![p] = node], !.prev = [@ EXCEPT ![n] = node]]

\* DeleteNode of the LFU package: no nil checks.
LFU_DeleteNode(s, node) ==
    LET n == s.next[node]
        p == s.prev[node]
    IN IF p = NIL THEN [s EXCEPT !.fault = TRUE]
       ELSE IF n = NIL THEN [s EXCEPT !.next = [@ EXCEPT ![p] = n], !.fault = TRUE]
       ELSE [s EXCEPT !.next = [@ EXCEPT ![p] = n], !.prev = [@ EXCEPT ![n] = p]]

\* The keys Evict can take: the map of the first bucket is walked in any order.
LFU_EvictChoices(s) ==
    IF s.next[FHEAD] = NIL THEN {} ELSE s.items[s.next[FHEAD]]

\* LFU_Cache.Evict with item the first key the range loop yields.
LFU_EvictItem(s, item) ==
    LET first == s.next[FHEAD]
    IN IF Cardinality(DOMAIN s.bykey) = 0 \/ first = NIL THEN [s EXCEPT !.fault = TRUE]
       ELSE IF s.items[first] = {} THEN s
       ELSE LET del == [s EXCEPT !.items = [@ EXCEPT ![first] = @ \ {item}],
                                 !.bykey = MapDelete(@, item),
                                 !.evicted = TRUE,
                                 !.victim = item]
            IN IF del.items[first] = {} THEN LFU_DeleteNode(del, first) ELSE del

\* The part of Insert after the check for a resident key.
LFU_InsertNew(s, k, data, item) ==
    LET ev == IF Cardinality(DOMAIN s.bykey) = size THEN LFU_EvictItem(s, item) ELSE s
        freq == ev.next[FHEAD]
        fresh == Min(FCells \ LFU_live(ev))
        got == IF freq = NIL \/ ev.value[freq] # 1
               THEN GetNewNode(ev, fresh, 1, FHEAD, freq) ELSE ev
        bucket == IF freq = NIL \/ ev.value[freq] # 1 THEN fresh ELSE freq
    IN IF ev.fault THEN ev
       ELSE IF got.fault THEN got
       ELSE [got EXCEPT !.bykey = MapPut(@, k, [data |-> data, parent |-> bucket]),
                        !.items = [@ EXCEPT ![bucket] = @ \cup {k}]]

\* An Insert that replaces the value of a resident key instead of panicking.
LFU_Insert_upsert(k, data) ==
    \E item \in LFU_EvictChoices(LFU_state) \cup {ZeroKey} :
        LET evicts == Cardinality(DOMAIN bykey) = size /\ k \notin DOMAIN bykey
            s == IF k \in DOMAIN bykey
                 THEN [LFU_state EXCEPT !.bykey = [@ EXCEPT ![k].data = data]]
                 ELSE LFU_InsertNew(LFU_state, k, data, item)
        IN /\ IF evicts /\ LFU_EvictChoices(LFU_state) # {}
              THEN item \in LFU_EvictChoices(LFU_state) ELSE item = ZeroKey
           /\ FCells \ LFU_live(LFU_state) # {}
           /\ LFU_commit(s, [op |-> "Insert", key |-> k, ok |-> ~s.fault, fault |-> s.fault,
                             data |-> data, evicted |-> s.evicted, victim |-> s.victim])

\* LFU_Cache.Insert
LFU_Insert(k, data) ==
    \E item \in LFU_EvictChoices(LFU_state) \cup {ZeroKey} :
        LET evicts == Cardinality(DOMAIN bykey) = size /\ k \notin DOMAIN bykey
            s == IF k \in DOMAIN bykey THEN [LFU_state EXCEPT !.fault = TRUE]
                 ELSE LFU_InsertNew(LFU_state, k, data, item)
        IN /\ IF evicts /\ LFU_EvictChoices(LFU_state) # {}
              THEN item \in LFU_EvictChoices(LFU_state) ELSE item = ZeroKey
           /\ FCells \ LFU_live(LFU_state) # {}
           /\ LFU_commit(s, [op |-> "Insert", key |-> k, ok |-> ~s.fault, fault |-> s.fault,
                             data |-> data, evicted |-> s.evicted, victim |-> s.victim])

\* The part of Access for a resident key.
LFU_AccessItem(s, k) ==
    LET freq == s.bykey[k].parent
        next_freq == s.next[freq]
        fresh == Min(FCells \ LFU_live(s))
        needs == next_freq = NIL \/ s.value[next_freq] # s.value[freq] + 1
        got == IF needs THEN GetNewNode(s, fresh, s.value[freq] + 1, freq, next_freq) ELSE s
        target == IF needs THEN fresh ELSE next_freq
    IN IF got.fault THEN got
       ELSE LET moved == [got EXCEPT !.items = [@ EXCEPT ![target] = @ \cup {k},
                                                          ![freq] = @ \ {k}],
                                     !.bykey = [@ EXCEPT ![k].parent = target]]
            IN IF moved.items[freq] = {} THEN LFU_DeleteNode(moved, freq) ELSE moved

\* LFU_Cache.Access
LFU_Access(k) ==
    LET s == IF k \notin DOMAIN bykey THEN [LFU_state EXCEPT !.fault = TRUE]
             ELSE LFU_AccessItem(LFU_state, k)
    IN /\ k \in DOMAIN bykey => f_value[bykey[k].parent] < MaxFreq
       /\ FCells \ LFU_live(LFU_state) # {}
       /\ LFU_commit(s, [op |-> "Access", key |-> k, ok |-> ~s.fault, fault |-> s.fault,
                         data |-> IF s.fault THEN NoData ELSE bykey[k].data,
                         evicted |-> FALSE, victim |-> ZeroKey])

\* LFU_Cache.Evict, called directly.
LFU_Evict ==
    \E item \in LFU_EvictChoices(LFU_state) \cup {ZeroKey} :
        LET s == LFU_EvictItem(LFU_state, item)
        IN /\ IF LFU_EvictChoices(LFU_state) # {}
              THEN item \in LFU_EvictChoices(LFU_state) ELSE item = ZeroKey
           /\ LFU_commit(s, [op |-> "Evict", key |-> s.victim, ok |-> s.evicted,
                             fault |-> s.fault,
                             data |-> IF s.evicted THEN bykey[s.victim].data ELSE NoData,
                             evicted |-> s.evicted, victim |-> s.victim])

LFUNext ==
    \/ \E k \in Keys, d \in LData : LFU_Insert(k, d)
    \/ \E k \in Keys : LFU_Access(k)
    \/ LFU_Evict

InitLFU == LFUInit /\ SieveIdle /\ VariantIdle /\ LRUKIdle /\ TwoQIdle

SpecLFU == InitLFU /\ [][LFUNext]_vars

\* The first half of C4 alone: the index never holds more than size keys.
LFU_IndexWithinSize == Cardinality(DOMAIN bykey) <= size

\* C4: the index never holds more than size keys, and an Insert of a new key
\* on a full cache removes exactly one resident key and adds the new one.
C4_LFUEvictsOneThenAdds ==
    [][/\ Cardinality(DOMAIN bykey') <= size
       /\ (lf_ret'.op = "Insert" /\ Cardinality(DOMAIN bykey) = size
             /\ lf_ret'.key \notin DOMAIN bykey)
          => \E v \in DOMAIN bykey :
                 DOMAIN bykey' = (DOMAIN bykey \ {v}) \cup {lf_ret'.key}]_vars

\* C24: Insert(k, v) of a key that is not resident into a cache that is not
\* full (the empty cache included) completes without faulting and leaves k in
\* the index and in the items of a bucket of frequency 1 that is linked
\* directly after freq_Head.
C24_InsertLinksFrequencyOneBucket ==
    [][(lf_ret'.op = "Insert" /\ lf_ret'.key \notin DOMAIN bykey
           /\ Cardinality(DOMAIN bykey) < size) =>
          LET k == lf_ret'.key
          IN /\ ~lf_ret'.fault
             /\ k \in DOMAIN bykey'
             /\ bykey'[k].data = lf_ret'.data
             /\ bykey'[k].parent = f_next'[FHEAD]
             /\ f_value'[bykey'[k].parent] = 1
             /\ k \in f_items'[bykey'[k].parent]]_vars

\* C25: Access(k) of a resident key whose bucket has frequency f returns the
\* key's value and moves k into a bucket of frequency f + 1 that directly
\* follows the old bucket (made when the next bucket is absent, as when the
\* old bucket is the last one, or has another frequency); the old bucket is
\* unlinked when k was its only key and otherwise keeps its other keys.
C25_AccessMovesToNextFrequency ==
    [][(lf_ret'.op = "Access" /\ lf_ret'.key \in DOMAIN bykey) =>
          LET k == lf_ret'.key
              old == bykey[k].parent
              f == f_value[old]
          IN /\ ~lf_ret'.fault
             /\ lf_ret'.data = bykey[k].data
             /\ k \in DOMAIN bykey'
             /\ f_value'[bykey'[k].parent] = f + 1
             /\ k \in f_items'[bykey'[k].parent]
             /\ f_prev'[bykey'[k].parent] # NIL
             /\ IF f_items[old] = {k}
                THEN f_value'[f_prev'[bykey'[k].parent]] < f
                ELSE /\ f_value'[f_prev'[bykey'[k].parent]] = f
                     /\ f_items'[f_prev'[bykey'[k].parent]] = f_items[old] \ {k}]_vars

\* The frequency of a resident key.
LFU_freq(k) == f_value[bykey[k].parent]

\* C26: an eviction, by Evict or by an Insert on a full cache, removes a key
\* of the first bucket after freq_Head from that bucket and from the index
\* and hands back the key with its value; the key removed has the lowest
\* frequency of all resident keys.
C26_EvictTakesLowestFrequency ==
    [][(/\ DOMAIN bykey # {}
        /\ \/ lf_ret'.op = "Evict"
           \/ /\ lf_ret'.op = "Insert" /\ lf_ret'.key \notin DOMAIN bykey
              /\ Cardinality(DOMAIN bykey) = size) =>
          LET v == lf_ret'.victim
          IN /\ lf_ret'.evicted
             /\ ~lf_ret'.fault
             /\ v \in DOMAIN bykey
             /\ f_next[FHEAD] # NIL /\ v \in f_items[f_next[FHEAD]]
             /\ v \notin DOMAIN bykey'
             /\ \A n \in FNodes : v \notin f_items'[n]
             /\ lf_ret'.op = "Evict" => lf_ret'.data = bykey[v].data
             /\ \A j \in DOMAIN bykey : LFU_freq(v) <= LFU_freq(j)]_vars

\* C27: misuse is fatal and leaves the cache as it was: Insert of a resident
\* key, Access of a key that is not resident and Evict on an empty cache each
\* panic, and the index and the bucket list are the same as before the call.
C27_MisusePanicsAndChangesNothing ==
    [][(\/ lf_ret'.op = "Insert" /\ lf_ret'.key \in DOMAIN bykey
        \/ lf_ret'.op = "Access" /\ lf_ret'.key \notin DOMAIN bykey
        \/ lf_ret'.op = "Evict" /\ DOMAIN bykey = {}) =>
          /\ lf_ret'.fault
          /\ UNCHANGED <<bykey, f_next, f_prev, f_value, f_items>>]_vars

\* An Insert of a key that is resident, at a frequency above 1, has panicked.
C27_Witness ==
    /\ lf_ret.op = "Insert" /\ lf_ret.fault
    /\ lf_ret.key \in DOMAIN bykey
    /\ f_value[bykey[lf_ret.key].parent] > 1

\* The buckets linked after freq_Head, in list order.
LFU_buckets == LFU_walk(f_next[FHEAD], f_next, MaxBuckets + 1)

\* The bucket list is strictly increasing in frequency and has no empty
\* bucket, and every indexed key is in the items of exactly one linked
\* bucket, the one its parent names.
LFU_wellFormed ==
    LET w == LFU_buckets
    IN /\ \A i \in DOMAIN w : f_items[w[i]] # {}
       /\ \A i \in DOMAIN w : i > 1 => f_value[w[i - 1]] < f_value[w[i]]
       /\ \A i \in DOMAIN w : f_value[w[i]] >= 1
       /\ \A k \in DOMAIN bykey :
             /\ \E i \in DOMAIN w : w[i] = bykey[k].parent
             /\ \A i \in DOMAIN w : k \in f_items[w[i]] <=> w[i] = bykey[k].parent
       /\ \A i \in DOMAIN w : f_items[w[i]] \subseteq DOMAIN bykey

\* C40: after every call of Insert, Access or Evict that returns, the bucket
\* list reachable from freq_Head is strictly increasing in frequency, holds
\* no empty bucket (it is empty, freq_Head.next nil, once the only item is
\* evicted), and every indexed key is in exactly one bucket, the one its
\* parent names; that bucket's frequency is 1 after the key's Insert, one
\* more after each Access of the key, and the same after any other call.
C40_BucketListWellFormedAndCounts ==
    [][(lf_ret'.op # "none" /\ ~lf_ret'.fault) =>
          /\ LFU_wellFormed'
          /\ DOMAIN bykey' = {} => f_next'[FHEAD] = NIL
          /\ \A k \in DOMAIN bykey' :
                f_value'[bykey'[k].parent] =
                   IF k \notin DOMAIN bykey THEN 1
                   ELSE IF lf_ret'.op = "Access" /\ lf_ret'.key = k
                        THEN LFU_freq(k) + 1
                        ELSE LFU_freq(k)]_vars
====
